---- MODULE Spec2Model ----
(***************************************************************************)
(* A model of the rules engine of src/engine.py: TypeSpec, RuleContext     *)
(* (resolve_value, trace cursor) and RulesEngine (evaluate, requirements,  *)
(* actions, the operation interpreter and its arithmetic tables).          *)
(***************************************************************************)
EXTENDS Integers, Sequences, FiniteSets, TLC

(***************************************************************************)
(* Python values.  Every value is a record of the same shape:              *)
(*   t : "none" | "bool" | "int" | "float" | "str" | "list" | "exc"        *)
(*   n/d : the numeric value of a bool, int or float as a fraction in      *)
(*         lowest terms with d > 0 (floats of the model are dyadic, so     *)
(*         the fraction is the exact binary value)                         *)
(*   s : the text of a str, or the exception class of an "exc"             *)
(*   l : the elements of a list                                            *)
(* An "exc" value stands for a raised exception propagating to the caller. *)
(***************************************************************************)
PyNone == [t |-> "none", n |-> 0, d |-> 1, s |-> "", l |-> <<>>]
PyInt(i) == [t |-> "int", n |-> i, d |-> 1, s |-> "", l |-> <<>>]
PyBool(b) == [t |-> "bool", n |-> IF b THEN 1 ELSE 0, d |-> 1, s |-> "", l |-> <<>>]
PyStr(x) == [t |-> "str", n |-> 0, d |-> 1, s |-> x, l |-> <<>>]
PyList(xs) == [t |-> "list", n |-> 0, d |-> 1, s |-> "", l |-> xs]
PyExc(x) == [t |-> "exc", n |-> 0, d |-> 1, s |-> x, l |-> <<>>]

Abs(i) == IF i < 0 THEN -i ELSE i

RECURSIVE GCD(_, _)
GCD(a, b) == IF b = 0 THEN a ELSE GCD(b, a % b)

\* the float n/d, in lowest terms
PyFloat(n, d) ==
    LET g == GCD(Abs(n), d)
    IN  [t |-> "float", n |-> n \div g, d |-> d \div g, s |-> "", l |-> <<>>]

IsExc(v) == v.t = "exc"
\* isinstance(v, (int, float)): bool is a subclass of int
IsNumeric(v) == v.t \in {"bool", "int", "float"}
\* isinstance(v, float)
IsFloat(v) == v.t = "float"

\* bool(v)
Truthy(v) ==
    CASE v.t = "none" -> FALSE
      [] v.t \in {"bool", "int", "float"} -> v.n # 0
      [] v.t = "str" -> v.s # ""
      [] v.t = "list" -> v.l # <<>>
      [] OTHER -> TRUE

\* int(q) of the fraction n/d, d > 0: truncation toward zero
TruncToInt(n, d) == IF n >= 0 THEN n \div d ELSE -((-n) \div d)

\* a < b on numerics
NumLt(a, b) == a.n * b.d < b.n * a.d
\* a == b on numerics
NumEq(a, b) == a.n * b.d = b.n * a.d

\* The arithmetic of two numerics: an int unless an operand is a float.
NumAdd(x, y) ==
    IF IsFloat(x) \/ IsFloat(y)
    THEN PyFloat(x.n * y.d + y.n * x.d, x.d * y.d)
    ELSE PyInt(x.n + y.n)
NumSub(x, y) ==
    IF IsFloat(x) \/ IsFloat(y)
    THEN PyFloat(x.n * y.d - y.n * x.d, x.d * y.d)
    ELSE PyInt(x.n - y.n)
NumMul(x, y) ==
    IF IsFloat(x) \/ IsFloat(y)
    THEN PyFloat(x.n * y.n, x.d * y.d)
    ELSE PyInt(x.n * y.n)
\* int(x / y), y # 0: true division, then truncation toward zero
IntOfQuotient(x, y) ==
    LET num == x.n * y.d
        den == x.d * y.n
    IN  IF den > 0 THEN PyInt(TruncToInt(num, den)) ELSE PyInt(TruncToInt(-num, -den))

(***************************************************************************)
(* Comparison of values: operator.eq/ne never raise; the ordering          *)
(* operators raise TypeError unless both sides are numbers or both are     *)
(* strings.  Strings are ordered as Python orders them; StrOrder lists the *)
(* strings of the model in that order.                                     *)
(***************************************************************************)
StrOrder == <<"", "2000-03-11", "2024-03-10", "A", "B", "adult", "minor", "x", "y">>
StrRank(x) == CHOOSE i \in 1..Len(StrOrder) : StrOrder[i] = x

RECURSIVE PyEqSeq(_, _)
PyEq(a, b) ==
    CASE IsNumeric(a) /\ IsNumeric(b) -> NumEq(a, b)
      [] a.t = "none" /\ b.t = "none" -> TRUE
      [] a.t = "str" /\ b.t = "str" -> a.s = b.s
      [] a.t = "list" /\ b.t = "list" -> PyEqSeq(a.l, b.l)
      [] OTHER -> FALSE
PyEqSeq(xs, ys) ==
    /\ Len(xs) = Len(ys)
    /\ \A i \in 1..Len(xs) :
          IF IsNumeric(xs[i]) /\ IsNumeric(ys[i]) THEN NumEq(xs[i], ys[i])
          ELSE xs[i] = ys[i]

Orderable(a, b) ==
    \/ IsNumeric(a) /\ IsNumeric(b)
    \/ a.t = "str" /\ b.t = "str"
\* a < b, for Orderable(a, b)
PyLt(a, b) ==
    IF a.t = "str" THEN StrRank(a.s) < StrRank(b.s) ELSE NumLt(a, b)

\* x in xs (list membership by ==)
PyIn(x, xs) == \E i \in 1..Len(xs) : PyEq(x, xs[i])

(***************************************************************************)
(* RulesEngine.COMPARISON_OPS and _evaluate_comparison                     *)
(***************************************************************************)
COMPARISON_OPS ==
    {"EQUALS", "NOT_EQUALS", "GREATER_THAN", "LESS_THAN", "GREATER_OR_EQUAL", "LESS_OR_EQUAL"}

evaluate_comparison(op, left, right) ==
    IF op = "EQUALS" THEN PyBool(PyEq(left, right))
    ELSE IF op = "NOT_EQUALS" THEN PyBool(~PyEq(left, right))
    ELSE IF ~Orderable(left, right) THEN PyExc("TypeError")
    ELSE IF op = "GREATER_THAN" THEN PyBool(PyLt(right, left))
    ELSE IF op = "LESS_THAN" THEN PyBool(PyLt(left, right))
    ELSE IF op = "GREATER_OR_EQUAL" THEN PyBool(~PyLt(left, right))
    ELSE PyBool(~PyLt(right, left))

(***************************************************************************)
(* RulesEngine.ARITHMETIC_OPS and _evaluate_arithmetic.  Each table entry  *)
(* is a left fold of a two-argument step over the list; an operand that is *)
(* not a number makes the step raise TypeError.                            *)
(***************************************************************************)
ARITHMETIC_OPS == {"MIN", "MAX", "ADD", "MULTIPLY", "SUBTRACT", "DIVIDE"}

\* multiply_step with the test |y| < 1 on a fractional y in place of y < 1 on a float y
multiply_step_abs(x, y) ==
    LET p == NumMul(x, y)
    IN  IF y.d # 1 /\ Abs(y.n) < y.d THEN PyInt(TruncToInt(p.n, p.d)) ELSE p

\* lambda x, y: int(x * y) if isinstance(y, float) and y < 1 else x * y
multiply_step(x, y) ==
    LET p == NumMul(x, y)
    IN  IF IsFloat(y) /\ NumLt(y, PyInt(1)) THEN PyInt(TruncToInt(p.n, p.d)) ELSE p

\* divide_step with floor division (x // y) in place of int(x / y)
divide_step_floor(x, y) ==
    LET num == x.n * y.d
        den == x.d * y.n
    IN  IF ~NumEq(y, PyInt(0))
        THEN (IF den > 0 THEN PyInt(num \div den) ELSE PyInt((-num) \div (-den)))
        ELSE PyInt(0)

\* lambda x, y: int(x / y) if y != 0 else 0
divide_step(x, y) ==
    IF ~NumEq(y, PyInt(0)) THEN IntOfQuotient(x, y) ELSE PyInt(0)

\* min / max keep the first extremal element
min_step(m, v) == IF PyLt(v, m) THEN v ELSE m
max_step(m, v) == IF PyLt(m, v) THEN v ELSE m

\* one step of the fold of table entry op
fold_step(op, x, y) ==
    IF IsExc(x) THEN x
    ELSE IF op \in {"MIN", "MAX"}
    THEN (IF ~Orderable(x, y) THEN PyExc("TypeError")
          ELSE IF op = "MIN" THEN min_step(x, y) ELSE max_step(x, y))
    ELSE IF ~IsNumeric(x) \/ ~IsNumeric(y) THEN PyExc("TypeError")
    ELSE IF op = "ADD" THEN NumAdd(x, y)
    ELSE IF op = "SUBTRACT" THEN NumSub(x, y)
    ELSE IF op = "MULTIPLY" THEN multiply_step(x, y)
    ELSE divide_step(x, y)

\* functools.reduce(step, vals[i:], acc)
RECURSIVE reduce(_, _, _, _)
reduce(op, vals, i, acc) ==
    IF i > Len(vals) THEN acc ELSE reduce(op, vals, i + 1, fold_step(op, acc, vals[i]))

\* 0 in vals[1:]
zero_divisor(vals) == \E i \in 2..Len(vals) : IsNumeric(vals[i]) /\ vals[i].n = 0

\* where the fold of table entry op starts: sum() starts from 0, the others
\* from the first element
fold_init(op, vals) == IF op = "ADD" THEN PyInt(0) ELSE vals[1]
fold_from(op) == IF op = "ADD" THEN 1 ELSE 2

\* ARITHMETIC_OPS[op](values), values not empty
arithmetic_op(op, vals) ==
    IF op = "DIVIDE" /\ zero_divisor(vals) THEN PyInt(0)
    ELSE reduce(op, vals, fold_from(op), fold_init(op, vals))

evaluate_arithmetic(op, values) ==
    IF values = <<>> THEN PyInt(0) ELSE arithmetic_op(op, values)

(***************************************************************************)
(* TypeSpec.  A TypeSpec is a record [unit, precision, min, max] of        *)
(* values, PyNone where the field is not set.                              *)
(***************************************************************************)
TypeSpec(unit, precision, min, max) ==
    [unit |-> unit, precision |-> precision, min |-> min, max |-> max]

RECURSIVE Pow10(_)
Pow10(p) == IF p <= 0 THEN 1 ELSE 10 * Pow10(p - 1)

\* the integer nearest to num/den (den > 0), ties to the even one
RoundHalfEven(num, den) ==
    LET q == num \div den
        r == num - q * den
    IN  IF 2 * r < den THEN q
        ELSE IF 2 * r > den THEN q + 1
        ELSE IF q % 2 = 0 THEN q ELSE q + 1

\* round(value, precision), precision >= 0: an int stays an int, a float is
\* rounded half-to-even to that many decimals
round(value, precision) ==
    IF value.t # "float" THEN PyInt(value.n)
    ELSE PyFloat(RoundHalfEven(value.n * Pow10(precision), value.d), Pow10(precision))

\* float(s): the numeric strings of the model; any other string raises ValueError
float_of_str(x) ==
    CASE x = "12.5" -> PyFloat(25, 2)
      [] x = "150" -> PyFloat(150, 1)
      [] OTHER -> PyExc("ValueError")

\* enforce_numeric with eurocent taken as a conversion of euros to cents
enforce_numeric_to_cents(ts, value) ==
    LET v1 == IF ts.min.t # "none" /\ NumLt(value, ts.min) THEN ts.min ELSE value
        v2 == IF ts.max.t # "none" /\ NumLt(ts.max, v1) THEN ts.max ELSE v1
        v3 == IF ts.precision.t # "none" THEN round(v2, ts.precision.n) ELSE v2
    IN  IF ts.unit = PyStr("eurocent") THEN PyInt(TruncToInt(100 * v3.n, v3.d)) ELSE v3

\* enforce_numeric with the lower bound applied after the upper bound only
\* when the value is negative
enforce_numeric_min_of_negatives(ts, value) ==
    LET v1 == IF ts.min.t # "none" /\ NumLt(value, ts.min) /\ value.n < 0 THEN ts.min ELSE value
        v2 == IF ts.max.t # "none" /\ NumLt(ts.max, v1) THEN ts.max ELSE v1
        v3 == IF ts.precision.t # "none" THEN round(v2, ts.precision.n) ELSE v2
    IN  IF ts.unit = PyStr("eurocent") THEN PyInt(TruncToInt(v3.n, v3.d)) ELSE v3

\* TypeSpec.enforce, from the point where value is known to be a number
enforce_numeric(ts, value) ==
    LET v1 == IF ts.min.t # "none" /\ NumLt(value, ts.min) THEN ts.min ELSE value
        v2 == IF ts.max.t # "none" /\ NumLt(ts.max, v1) THEN ts.max ELSE v1
        v3 == IF ts.precision.t # "none" THEN round(v2, ts.precision.n) ELSE v2
    IN  IF ts.unit = PyStr("eurocent") THEN PyInt(TruncToInt(v3.n, v3.d)) ELSE v3

\* TypeSpec.enforce
enforce(ts, value) ==
    CASE value.t = "none" -> value
      [] value.t = "str" ->
            IF IsExc(float_of_str(value.s)) THEN value
            ELSE enforce_numeric(ts, float_of_str(value.s))
      [] ~IsNumeric(value) -> value
      [] OTHER -> enforce_numeric(ts, value)

(***************************************************************************)
(* Dates: datetime.fromisoformat(str(v)) and the differences of            *)
(* _evaluate_date_operation.  A parsed date is <<year, month, day>>.       *)
(***************************************************************************)
\* the ISO dates of the model; str(v) of anything else does not parse
IsIsoDate(v) == v.t = "str" /\ v.s \in {"2024-03-10", "2000-03-11"}
fromisoformat(v) ==
    IF v.s = "2024-03-10" THEN <<2024, 3, 10>> ELSE <<2000, 3, 11>>

\* the day number of a date (proleptic Gregorian), for differences in days
DayNumber(date) ==
    LET y == IF date[2] <= 2 THEN date[1] - 1 ELSE date[1]
        m == IF date[2] <= 2 THEN date[2] + 9 ELSE date[2] - 3
    IN  365 * y + (y \div 4) - (y \div 100) + (y \div 400) + ((153 * m + 2) \div 5) + date[3]

\* (a.month, a.day) < (b.month, b.day)
MonthDayLt(a, b) == a[2] < b[2] \/ (a[2] = b[2] /\ a[3] < b[3])

\* RulesEngine._evaluate_date_operation
evaluate_date_operation(op, values, unit) ==
    IF op # "SUBTRACT_DATE" THEN PyNone
    ELSE IF Len(values) # 2 THEN PyInt(0)
    ELSE IF ~IsIsoDate(values[1]) \/ ~IsIsoDate(values[2]) THEN PyExc("ValueError")
    ELSE LET end_date == fromisoformat(values[1])
             start_date == fromisoformat(values[2])
         IN  CASE unit = "days" -> PyInt(DayNumber(end_date) - DayNumber(start_date))
               [] unit = "years" ->
                     PyInt(end_date[1] - start_date[1]
                           - (IF MonthDayLt(end_date, start_date) THEN 1 ELSE 0))
               [] unit = "months" ->
                     PyInt((end_date[1] - start_date[1]) * 12 + end_date[2] - start_date[2])
               [] OTHER -> PyInt(0)

(***************************************************************************)
(* The specification tree.  A JSON value of the law is a term:             *)
(*   Lit(v)  a number, a string without the $ prefix, null or a list       *)
(*   Ref(p)  the string "$p", a reference with bare path p                 *)
(*   Dict(f) a mapping; f is a record of its keys                          *)
(***************************************************************************)
Lit(v) == [k |-> "lit", v |-> v]
Ref(p) == [k |-> "ref", p |-> p]
Dict(f) == [k |-> "dict", f |-> f]

\* path.startswith('$')
startswith_dollar(x) == Len(x) > 0 /\ Head(x) = "$"

\* a string of the law as resolve_value takes it: one that begins with '$' is
\* a reference whose bare path is path[1:], the rest of the string; any other
\* string is a plain value
Str(x) == IF startswith_dollar(x) THEN Ref(Tail(x)) ELSE Lit(PyStr(x))

\* mapping.get(key, default)
GetOr(mapping, key, default) == IF key \in DOMAIN mapping THEN mapping[key] ELSE default
\* mapping[key] = value
Put(mapping, key, value) ==
    [x \in DOMAIN mapping \cup {key} |-> IF x = key THEN value ELSE mapping[x]]
EmptyDict == <<>>

Last(xs) == xs[Len(xs)]
ButLast(xs) == SubSeq(xs, 1, Len(xs) - 1)

(***************************************************************************)
(* RulesEngine.__init__                                                    *)
(***************************************************************************)
\* the "for prop in ...: if 'name' in prop: specs[prop['name']] = prop" loops
RECURSIVE add_named(_, _, _)
add_named(specs, props, i) ==
    IF i > Len(props) THEN specs
    ELSE add_named(IF "name" \in DOMAIN props[i] THEN Put(specs, props[i].name, props[i]) ELSE specs,
                   props, i + 1)

build_property_specs(properties) ==
    add_named(add_named(EmptyDict, GetOr(properties, "input", <<>>), 1),
              GetOr(properties, "sources", <<>>), 1)

type_spec_of(output) ==
    LET type_spec == GetOr(output, "type_spec", EmptyDict)
    IN  TypeSpec(GetOr(type_spec, "unit", PyNone), GetOr(type_spec, "precision", PyNone),
                 GetOr(type_spec, "min", PyNone), GetOr(type_spec, "max", PyNone))

RECURSIVE add_type_specs(_, _, _)
add_type_specs(specs, outputs, i) ==
    IF i > Len(outputs) THEN specs
    ELSE add_type_specs(IF "name" \in DOMAIN outputs[i]
                        THEN Put(specs, outputs[i].name, type_spec_of(outputs[i]))
                        ELSE specs,
                        outputs, i + 1)

build_output_specs(properties) == add_type_specs(EmptyDict, GetOr(properties, "output", <<>>), 1)

RulesEngine(law_spec, provider) ==
    [spec |-> law_spec,
     service_name |-> law_spec.service,
     law |-> law_spec.law,
     definitions |-> law_spec.properties.definitions,
     requirements |-> law_spec.requirements,
     actions |-> law_spec.actions,
     property_specs |-> build_property_specs(law_spec.properties),
     output_specs |-> build_output_specs(law_spec.properties),
     service_provider |-> provider]

\* RulesEngine._enforce_output_type
enforce_output_type(output_specs, name, value) ==
    IF name \in DOMAIN output_specs THEN enforce(output_specs[name], value) ELSE value

(***************************************************************************)
(* PathNode and the trace cursor of RuleContext.  nodes holds every        *)
(* PathNode created, by identity; children and the cursor stack hold       *)
(* identities.                                                             *)
(***************************************************************************)
\* track_access placed after the calculation_date shortcut of resolve_value
track_access_after_date(paths, p) == IF p = "calculation_date" THEN paths ELSE paths \cup {p}

\* RuleContext.track_access
track_access(paths, p) == paths \cup {p}

PathNode(type, name, details) ==
    [type |-> type, name |-> name, result |-> PyNone, details |-> details, children |-> <<>>]

\* add_to_path_nodes without the append to the children of the current node
add_to_path_nodes_detached(ns, cursor, node) == Append(ns, node)

\* RuleContext.add_to_path: the node store after the call
add_to_path_nodes(ns, cursor, node) ==
    IF cursor # <<>>
    THEN [Append(ns, node) EXCEPT ![Last(cursor)].children = Append(@, Len(ns) + 1)]
    ELSE Append(ns, node)
\* RuleContext.add_to_path: the cursor stack after the call
add_to_path(ns, cursor) == Append(cursor, Len(ns) + 1)

\* pop_path that leaves the cursor stack as it is
pop_path_keep(cursor) == cursor

\* RuleContext.pop_path
pop_path(cursor) == IF cursor # <<>> THEN ButLast(cursor) ELSE cursor

(***************************************************************************)
(* RuleContext.resolve_value on a reference with bare path p.  c is the    *)
(* context: a record of the RuleContext fields the lookup reads.           *)
(***************************************************************************)
\* spec.get('service_reference', {}) of the property spec of p, {} without one
service_ref_of(c, p) ==
    IF p \in DOMAIN c.property_specs
    THEN GetOr(c.property_specs[p], "service_reference", EmptyDict) ELSE EmptyDict
source_ref_of(c, p) ==
    IF p \in DOMAIN c.property_specs
    THEN GetOr(c.property_specs[p], "source_reference", EmptyDict) ELSE EmptyDict

\* f"@{service_ref['service']}.{service_ref['field']}"; "" stands for None
service_field_key(c, p) ==
    IF service_ref_of(c, p) # EmptyDict
    THEN "@" \o service_ref_of(c, p).service \o "." \o service_ref_of(c, p).field
    ELSE ""

\* service_field_key and service_field_key in self.overwrite_input
has_override(c, p) ==
    service_field_key(c, p) # "" /\ service_field_key(c, p) \in DOMAIN c.overwrite_input

\* bool(self.sources)
sources_truthy(c) == ~c.sources.isNone /\ DOMAIN c.sources.tables # {}

\* source_ref and self.sources and table in self.sources and field in self.sources[table]
has_source(c, p) ==
    /\ source_ref_of(c, p) # EmptyDict
    /\ sources_truthy(c)
    /\ "table" \in DOMAIN source_ref_of(c, p)
    /\ "field" \in DOMAIN source_ref_of(c, p)
    /\ source_ref_of(c, p).table \in DOMAIN c.sources.tables
    /\ source_ref_of(c, p).field \in DOMAIN c.sources.tables[source_ref_of(c, p).table]

\* service_ref and self.service_provider
has_service(c, p) == service_ref_of(c, p) # EmptyDict /\ c.service_provider

\* resolve_via with the source step ahead of the override step
resolve_via_source_first(c, p) ==
    IF p = "calculation_date" THEN "calculation_date"
    ELSE IF p \in DOMAIN c.definitions THEN "definition"
    ELSE IF p \in DOMAIN c.values_cache THEN "cache"
    ELSE IF has_source(c, p) THEN "source"
    ELSE IF has_override(c, p) THEN "override"
    ELSE IF has_service(c, p) THEN "service"
    ELSE "none"

\* the step of resolve_value that answers the reference, in the order of the code
resolve_via(c, p) ==
    IF p = "calculation_date" THEN "calculation_date"
    ELSE IF p \in DOMAIN c.definitions THEN "definition"
    ELSE IF p \in DOMAIN c.values_cache THEN "cache"
    ELSE IF has_override(c, p) THEN "override"
    ELSE IF has_source(c, p) THEN "source"
    ELSE IF has_service(c, p) THEN "service"
    ELSE "none"

\* the value a step other than the service call returns
resolve_from(c, p, via) ==
    CASE via = "calculation_date" -> c.calculation_date
      [] via = "definition" -> c.definitions[p]
      [] via = "cache" -> c.values_cache[p]
      [] via = "override" -> c.overwrite_input[service_field_key(c, p)]
      [] via = "source" -> c.sources.tables[source_ref_of(c, p).table][source_ref_of(c, p).field]
      [] OTHER -> PyNone

\* inputs_after with the answer of the ServiceProvider written back into
\* overwrite_input
inputs_after_write_back(inputs, p, via, value) ==
    IF via = "service"
    THEN [inputs EXCEPT !.overwrite_input = Put(@, p, value)]
    ELSE inputs

\* the caller's mappings held by the RuleContext (service_context, sources,
\* overwrite_input) after a step has answered p with value: the steps read
\* them and assign to values_cache only
inputs_after(inputs, p, via, value) == inputs

\* cache_after without the cache write of the source step
cache_after_no_source(cache, p, via, value) ==
    IF via \in {"override", "service"} THEN Put(cache, p, value) ELSE cache

\* cache_after without the cache write after a service call
cache_after_no_service(cache, p, via, value) ==
    IF via \in {"override", "source"} THEN Put(cache, p, value) ELSE cache

\* values_cache after a step has answered p with value
cache_after(cache, p, via, value) ==
    IF via \in {"override", "source", "service"} THEN Put(cache, p, value) ELSE cache

(***************************************************************************)
(* RulesEngine._evaluate_operation: the kind of an operation (the branch   *)
(* the dispatch takes), the operands the branch evaluates, in order, and   *)
(* the result it computes from their values.                               *)
(***************************************************************************)
\* the operation names that contain the substring _DATE
contains_DATE(op_type) == op_type \in {"SUBTRACT_DATE", "ADD_DATE"}

\* operation.get('operation') is truthy
has_operation(f) == "operation" \in DOMAIN f /\ f.operation # ""

op_kind(operation) ==
    IF operation.k # "dict" THEN "value"
    ELSE IF "value" \in DOMAIN operation.f /\ ~has_operation(operation.f) THEN "direct_value"
    ELSE IF "operation" \notin DOMAIN operation.f THEN "TypeError"
    ELSE IF operation.f.operation \in {"IF", "IN", "NOT_NULL", "AND", "OR"} THEN operation.f.operation
    ELSE IF contains_DATE(operation.f.operation) THEN "DATE"
    ELSE IF operation.f.operation \in COMPARISON_OPS /\ "subject" \in DOMAIN operation.f
    THEN "COMPARISON"
    ELSE IF operation.f.operation \in ARITHMETIC_OPS /\ "values" \in DOMAIN operation.f
    THEN "ARITHMETIC"
    ELSE "invalid"

\* str(operation.get('operation'))
op_type_name(operation) ==
    IF "operation" \in DOMAIN operation.f THEN operation.f.operation ELSE "None"

\* ListOperands with the list taken from its last element to its first
ListOperands_reversed(f, key) ==
    IF key \in DOMAIN f
    THEN [i \in 1..Len(f[key]) |->
             [ok |-> TRUE, term |-> f[key][Len(f[key]) + 1 - i], exc |-> ""]]
    ELSE <<[ok |-> FALSE, term |-> Lit(PyNone), exc |-> "KeyError"]>>

\* operation[key]: a term to evaluate, or the KeyError of a missing key
Operand(f, key) ==
    IF key \in DOMAIN f THEN [ok |-> TRUE, term |-> f[key], exc |-> ""]
    ELSE [ok |-> FALSE, term |-> Lit(PyNone), exc |-> "KeyError"]
\* [... for v in operation[key]]
ListOperands(f, key) ==
    IF key \in DOMAIN f
    THEN [i \in 1..Len(f[key]) |-> [ok |-> TRUE, term |-> f[key][i], exc |-> ""]]
    ELSE <<[ok |-> FALSE, term |-> Lit(PyNone), exc |-> "KeyError"]>>

operands(operation) ==
    LET kind == op_kind(operation)
        f == operation.f
    IN  CASE kind = "value" -> <<[ok |-> TRUE, term |-> operation, exc |-> ""]>>
          [] kind = "direct_value" -> <<Operand(f, "value")>>
          [] kind = "TypeError" -> <<[ok |-> FALSE, term |-> Lit(PyNone), exc |-> "TypeError"]>>
          [] kind = "IN" ->
                <<Operand(f, "subject"),
                  [ok |-> TRUE, term |-> GetOr(f, "values", Lit(PyList(<<>>))), exc |-> ""]>>
          [] kind = "NOT_NULL" -> <<Operand(f, "subject")>>
          [] kind \in {"AND", "OR", "DATE", "ARITHMETIC"} -> ListOperands(f, "values")
          [] kind = "COMPARISON" -> <<Operand(f, "subject"), Operand(f, "value")>>
          [] OTHER -> <<>>

AllTruthy(vals) == \A i \in 1..Len(vals) : Truthy(vals[i])
AnyTruthy(vals) == \E i \in 1..Len(vals) : Truthy(vals[i])

\* the result of the branch, from the values of its operands
op_result(operation, vals) ==
    LET kind == op_kind(operation)
        f == operation.f
    IN  CASE kind \in {"value", "direct_value"} -> vals[1]
          [] kind = "IN" ->
                PyBool(PyIn(vals[1], IF vals[2].t = "list" THEN vals[2].l ELSE <<vals[2]>>))
          [] kind = "NOT_NULL" -> PyBool(vals[1].t # "none")
          [] kind = "AND" -> PyBool(AllTruthy(vals))
          [] kind = "OR" -> PyBool(AnyTruthy(vals))
          [] kind = "DATE" -> evaluate_date_operation(f.operation, vals, GetOr(f, "unit", "days"))
          [] kind = "COMPARISON" -> evaluate_comparison(f.operation, vals[1], vals[2])
          [] kind = "ARITHMETIC" -> evaluate_arithmetic(f.operation, vals)
          [] OTHER -> PyInt(0)

\* the node the branch creates on entry
op_node(operation) ==
    LET kind == op_kind(operation)
    IN  CASE kind = "value" ->
                PathNode("value", "Direct value evaluation", [raw_value |-> operation])
          [] kind = "direct_value" ->
                PathNode("direct_value", "Direct value assignment", [raw_value |-> operation.f.value])
          [] OTHER ->
                PathNode("operation", "Operation: " \o op_type_name(operation),
                         [operation_type |-> op_type_name(operation)])

\* node.details after the branch
op_details(operation, details, vals) ==
    LET kind == op_kind(operation)
        f == operation.f
    IN  CASE kind = "IN" -> [subject_value |-> vals[1], allowed_values |-> vals[2]] @@ details
          [] kind = "NOT_NULL" -> [subject_value |-> vals[1]] @@ details
          [] kind \in {"AND", "OR"} -> [evaluated_values |-> vals] @@ details
          [] kind = "DATE" ->
                [evaluated_values |-> vals, unit |-> GetOr(f, "unit", "days")] @@ details
          [] kind = "COMPARISON" ->
                [subject_value |-> vals[1], comparison_value |-> vals[2],
                 comparison_type |-> f.operation] @@ details
          [] kind = "ARITHMETIC" ->
                [raw_values |-> f.values, evaluated_values |-> vals,
                 arithmetic_type |-> f.operation] @@ details
          [] kind = "invalid" -> [error |-> "Invalid operation format"] @@ details
          [] OTHER -> details

(***************************************************************************)
(* The arithmetic tables run on their own: a call                          *)
(* _evaluate_arithmetic(op, values) on a list of numbers, one fold step at *)
(* a time.  arith_trail records the partial results of the fold.           *)
(***************************************************************************)
VARIABLES arith_pc, arith_op, arith_vals, arith_idx, arith_acc, arith_trail, arith_result

arith_vars == <<arith_pc, arith_op, arith_vals, arith_idx, arith_acc, arith_trail, arith_result>>

\* longest list of values handed to an arithmetic operation
MaxVals == 3

\* the numbers the lists are drawn from: integers, and floats 0.5, -0.5, 1.5,
\* -2.5 and -1.0
NumPool ==
    {PyInt(-7), PyInt(0), PyInt(2), PyInt(3), PyInt(10), PyInt(100),
     PyFloat(1, 2), PyFloat(-1, 2), PyFloat(3, 2), PyFloat(-5, 2), PyFloat(-1, 1)}

SeqsUpTo(S, k) == UNION {[1..m -> S] : m \in 0..k}

ArithIdle ==
    /\ arith_pc = "off"
    /\ arith_op = "ADD"
    /\ arith_vals = <<>>
    /\ arith_idx = 0
    /\ arith_acc = PyNone
    /\ arith_trail = <<>>
    /\ arith_result = PyNone

(***************************************************************************)
(* TypeSpec.enforce run on its own: enforce applied to a value, and then   *)
(* to its own result.                                                      *)
(***************************************************************************)
VARIABLES enforce_pc, enforce_spec, enforce_value, enforce_first, enforce_second

enforce_vars == <<enforce_pc, enforce_spec, enforce_value, enforce_first, enforce_second>>

EnforceIdle ==
    /\ enforce_pc = "off"
    /\ enforce_spec = TypeSpec(PyNone, PyNone, PyNone, PyNone)
    /\ enforce_value = PyNone
    /\ enforce_first = PyNone
    /\ enforce_second = PyNone

(***************************************************************************)
(* The state of one engine and of the evaluate call running on it.         *)
(*   engine            the RulesEngine object                              *)
(*   context           the inputs of the RuleContext of the call:          *)
(*                     service_context, sources, overwrite_input and       *)
(*                     calculation_date                                    *)
(*   accessed_paths, values_cache, path                                    *)
(*                     the mutable fields of the RuleContext; path is the  *)
(*                     cursor stack, of node identities                    *)
(*   nodes             the PathNodes created, by identity (the root is 1)  *)
(*   pc                "idle", "running", "done" (evaluate has returned)   *)
(*                     or "raised" (an exception has left evaluate)        *)
(*   kont              the call stack of the coroutine: one frame per      *)
(*                     active call, the innermost last                     *)
(*   ret               the value the last finished call returned, or the   *)
(*                     exception it raised                                 *)
(*   result            what evaluate returned                              *)
(*   calls             the ServiceProvider.get_value calls made, in order  *)
(*   resolved          history: the references resolve_value answered      *)
(*   pops              history: the number of nodes pop_path removed       *)
(*   pending           the evaluate calls the caller has still to make     *)
(* result, calls, resolved and pops are those of the latest call.          *)
(***************************************************************************)
VARIABLES engine, context, accessed_paths, values_cache, path, nodes,
          pc, kont, ret, result, calls, resolved, pops, pending

engine_vars == <<engine, context, accessed_paths, values_cache, path, nodes,
                 pc, kont, ret, result, calls, resolved, pops, pending>>

vars == <<engine_vars, arith_vars, enforce_vars>>

(***************************************************************************)
(* The laws and inputs of the model                                        *)
(***************************************************************************)
\* most requirements plus actions of a law
MaxItems == 2

ServiceRef == [service |-> "S", law |-> "L", field |-> "f"]
SourceRef == [table |-> "t", field |-> "f"]
Temporal == [type |-> "period"]

\* properties.input and properties.sources: property a with a service
\* reference and a source reference; with a service reference and no temporal
\* descriptor; and as an input with a service reference that a source
\* property of the same name replaces
PropertiesPool ==
    << [input |-> <<[name |-> "a", service_reference |-> ServiceRef,
                     source_reference |-> SourceRef, temporal |-> Temporal]>>,
        sources |-> <<>>],
       [input |-> <<[name |-> "a", service_reference |-> ServiceRef]>>,
        sources |-> <<>>],
       [input |-> <<[name |-> "a", service_reference |-> ServiceRef, temporal |-> Temporal]>>,
        sources |-> <<[name |-> "a", source_reference |-> SourceRef]>>] >>

\* properties.definitions: without and with a definition named like property a
DefinitionsPool ==
    << [d |-> PyInt(17)], [d |-> PyInt(17), a |-> PyInt(3)] >>

\* properties.output: x is an amount in eurocent within 0..100; y has no entry
OutputList ==
    << [name |-> "x", type |-> "amount", description |-> "the amount",
        type_spec |-> [unit |-> PyStr("eurocent"), min |-> PyInt(0), max |-> PyInt(100)]] >>

Op(f) == Dict(f)
Num(i) == Lit(PyInt(i))

\* requirements: a comparison on $a; an all of a null check, a membership
\* test and an empty all; an or of two tests that fail (a direct value that is
\* the unresolved reference "$$u", whose bare path is "$u", and an unknown
\* operation kind) and an empty or; a mapping with neither operation nor value
RequirementPool ==
    << Op([operation |-> "GREATER_THAN", subject |-> Ref("a"), value |-> Num(6)]),
       Op([all |-> << Op([operation |-> "NOT_NULL", subject |-> Ref("a")]),
                      Op([operation |-> "IN", subject |-> Ref("d"),
                          values |-> Lit(PyList(<<PyInt(17), PyInt(18)>>))]),
                      Op([all |-> <<>>]) >>]),
       Op([or |-> << Op([value |-> Str("$$u")]), Op([operation |-> "FOO"]),
                     Op([or |-> <<>>]) >>]),
       Op([subject |-> Ref("a")]) >>

\* actions: an IF chain for x (a comparison as test, a condition with neither
\* test nor else, a bare reference as test, an else); x as the direct value
\* $a; an arithmetic operation with a date difference for y; an OR for y over
\* an AND and a comparison without its value
ActionPool ==
    << Op([output |-> "x", operation |-> "IF",
           conditions |-> << [test |-> Op([operation |-> "LESS_THAN", subject |-> Ref("a"),
                                           value |-> Num(6)]),
                              then |-> Lit(PyStr("12.5"))],
                             [unit |-> "none"],
                             [test |-> Ref("u"), then |-> Ref("calculation_date")],
                             [else |-> Ref("d")] >>]),
       Op([output |-> "x", value |-> Ref("a")]),
       Op([output |-> "y", operation |-> "MULTIPLY",
           values |-> << Ref("a"), Lit(PyFloat(1, 2)),
                         Op([operation |-> "SUBTRACT_DATE", unit |-> "years",
                             values |-> <<Ref("calculation_date"), Lit(PyStr("2000-03-11"))>>]) >>]),
       Op([output |-> "y", operation |-> "OR",
           values |-> << Op([operation |-> "AND", values |-> <<Ref("a")>>]),
                         Op([operation |-> "EQUALS", subject |-> Ref("a")]) >>]) >>

\* overwrite_input: overrides of S.f (the service field of property a) and of
\* the engine's own output x
OverwritePool ==
    << EmptyDict,
       [x \in {"@S.f"} |-> PyInt(42)],
       [x \in {"@E.x"} |-> PyInt(250)],
       [x \in {"@S.f", "@E.x"} |-> IF x = "@S.f" THEN PyInt(42) ELSE PyInt(250)] >>

\* sources: None, or table t with field f
SourcesPool ==
    << [isNone |-> TRUE, tables |-> EmptyDict],
       [isNone |-> FALSE, tables |-> [t |-> [f |-> PyInt(7)]]] >>

\* requested_output: None, the empty string, or x
RequestedPool == <<PyNone, PyStr(""), PyStr("x")>>

\* what the ServiceProvider may answer
ServiceVals == {PyNone, PyInt(5)}

Law(reqs, acts, props, defs) ==
    [service |-> "E", law |-> "law",
     properties |-> [definitions |-> DefinitionsPool[defs],
                     input |-> PropertiesPool[props].input,
                     sources |-> PropertiesPool[props].sources,
                     output |-> OutputList],
     requirements |-> [i \in 1..Len(reqs) |-> RequirementPool[reqs[i]]],
     actions |-> [i \in 1..Len(acts) |-> ActionPool[acts[i]]]]

NoContext ==
    [service_context |-> EmptyDict, sources |-> SourcesPool[1],
     overwrite_input |-> EmptyDict, calculation_date |-> PyNone]

\* the properties and the definitions of the law, and whether the engine has
\* a ServiceProvider: the first properties and definitions with and without
\* a provider, and each other choice of properties or definitions with one
SetupPool ==
    << [props |-> 1, defs |-> 1, provider |-> TRUE],
       [props |-> 1, defs |-> 1, provider |-> FALSE],
       [props |-> 1, defs |-> 2, provider |-> TRUE],
       [props |-> 2, defs |-> 1, provider |-> TRUE],
       [props |-> 3, defs |-> 1, provider |-> TRUE] >>

\* the elements of a set of pool indices, in the order of the pool
RECURSIVE InOrder(_)
InOrder(S) ==
    IF S = {} THEN <<>>
    ELSE LET m == CHOOSE x \in S : \A y \in S : x <= y
         IN  <<m>> \o InOrder(S \ {m})

\* the engine has been constructed on a law of at most items requirements
\* and actions; no evaluate call has been made, and evaluations are to come
Constructed(items, evaluations) ==
    /\ \E reqs \in SUBSET (1..Len(RequirementPool)),
          acts \in SUBSET (1..Len(ActionPool)),
          setup \in 1..Len(SetupPool) :
          /\ Cardinality(reqs) + Cardinality(acts) <= items
          /\ engine = RulesEngine(Law(InOrder(reqs), InOrder(acts),
                                      SetupPool[setup].props, SetupPool[setup].defs),
                                  SetupPool[setup].provider)
    /\ context = NoContext
    /\ accessed_paths = {}
    /\ values_cache = EmptyDict
    /\ path = <<>>
    /\ nodes = <<>>
    /\ pc = "idle"
    /\ kont = <<>>
    /\ ret = PyNone
    /\ result = EmptyDict
    /\ calls = <<>>
    /\ resolved = <<>>
    /\ pops = 0
    /\ pending = evaluations
    /\ ArithIdle
    /\ EnforceIdle

\* one evaluate call on a law of at most MaxItems requirements and actions
Init == Constructed(MaxItems, 1)

\* a RuleContext is built without values_cache: the dataclass default
\* field(default_factory=dict) makes a new empty dict, whatever the
\* RuleContext of an earlier call held
default_values_cache_shared(earlier) == earlier
default_values_cache(earlier) == EmptyDict

\* the RuleContext as resolve_value reads it
RuleContext ==
    [definitions |-> engine.definitions,
     service_provider |-> engine.service_provider,
     service_context |-> context.service_context,
     property_specs |-> engine.property_specs,
     sources |-> context.sources,
     values_cache |-> values_cache,
     overwrite_input |-> context.overwrite_input,
     calculation_date |-> context.calculation_date]

Top == Last(kont)
Running == pc = "running" /\ kont # <<>> /\ ~IsExc(ret)

\* the top-level requirement or action on whose behalf the engine is working
Owner ==
    IF kont = <<>> THEN [phase |-> "none", i |-> 0]
    ELSE IF kont[1].at = "requirements"
    THEN [phase |-> "requirement", i |-> IF Len(kont) >= 2 THEN kont[2].i ELSE 0]
    ELSE [phase |-> "action", i |-> kont[1].i]

(***************************************************************************)
(* RulesEngine.evaluate, up to the call of _evaluate_requirements          *)
(***************************************************************************)
RootNode == PathNode("root", "evaluation", EmptyDict)
RequirementsNode == PathNode("requirements", "Check all requirements", EmptyDict)

Evaluate ==
    /\ pc \in {"idle", "done", "raised"}
    /\ pending > 0
    /\ pending' = pending - 1
    /\ \E overwrite \in 1..Len(OverwritePool), src \in 1..Len(SourcesPool),
          requested \in 1..Len(RequestedPool) :
          /\ context' = [service_context |-> [bsn |-> "999"],
                         sources |-> SourcesPool[src],
                         overwrite_input |-> OverwritePool[overwrite],
                         calculation_date |-> PyStr("2024-03-10")]
          /\ kont' = << [f |-> "evaluate", at |-> "requirements", i |-> 1,
                         requested_output |-> RequestedPool[requested],
                         requirements_node |-> 2,
                         requirements_met |-> PyNone,
                         input_values |-> EmptyDict, output_values |-> EmptyDict],
                        [f |-> "requirements", requirements |-> engine.requirements,
                         i |-> 1, at |-> "loop", node |-> 0, j |-> 0, results |-> <<>>] >>
    /\ accessed_paths' = {}
    /\ values_cache' = default_values_cache(values_cache)
    /\ nodes' = add_to_path_nodes(<<RootNode>>, <<1>>, RequirementsNode)
    /\ path' = add_to_path(<<RootNode>>, <<1>>)
    /\ pc' = "running"
    /\ ret' = PyNone
    /\ result' = EmptyDict
    /\ calls' = <<>>
    /\ resolved' = <<>>
    /\ pops' = 0
    /\ UNCHANGED engine
    /\ UNCHANGED <<arith_vars, enforce_vars>>

(***************************************************************************)
(* RulesEngine._evaluate_requirements                                      *)
(***************************************************************************)
\* "if not requirements: return True"
RequirementsEmpty ==
    /\ Running
    /\ Top.f = "requirements" /\ Top.at = "loop"
    /\ Top.requirements = <<>>
    /\ ret' = PyBool(TRUE)
    /\ kont' = ButLast(kont)
    /\ UNCHANGED <<engine, context, accessed_paths, values_cache, path, nodes,
                   pc, result, calls, resolved, pops>>
    /\ UNCHANGED <<pending, arith_vars, enforce_vars>>

requirement_name(req) ==
    IF "all" \in DOMAIN req.f THEN "Check ALL conditions"
    ELSE IF "or" \in DOMAIN req.f THEN "Check OR conditions"
    ELSE "Test condition"

\* the child requirements of an all / or requirement
requirement_children(req) ==
    IF "all" \in DOMAIN req.f THEN req.f.all
    ELSE IF "or" \in DOMAIN req.f THEN req.f["or"]
    ELSE <<>>
is_group(req) == "all" \in DOMAIN req.f \/ "or" \in DOMAIN req.f

\* combine_results with any(results) for all as well
combine_results_any(req, results) == PyBool(AnyTruthy(results))

\* all(results) / any(results)
combine_results(req, results) ==
    IF "all" \in DOMAIN req.f THEN PyBool(AllTruthy(results)) ELSE PyBool(AnyTruthy(results))

RequirementsFrame(reqs) ==
    [f |-> "requirements", requirements |-> reqs,
     i |-> 1, at |-> "loop", node |-> 0, j |-> 0, results |-> <<>>]
OperationFrame(operation) ==
    [f |-> "operation", operation |-> operation, at |-> "enter",
     node |-> 0, if_node |-> 0, j |-> 0, vals |-> <<>>, test_result |-> PyNone]
ValueFrame(value) == [f |-> "value", value |-> value]

\* the loop takes requirement i: its node is created and pushed, and the
\* first child requirement (all / or) or the operation is called
RequirementBegin ==
    /\ Running
    /\ Top.f = "requirements" /\ Top.at = "loop"
    /\ Top.i <= Len(Top.requirements)
    /\ LET req == Top.requirements[Top.i]
           node == PathNode("requirement", requirement_name(req), EmptyDict)
           id == Len(nodes) + 1
       IN  /\ nodes' = add_to_path_nodes(nodes, path, node)
           /\ path' = add_to_path(nodes, path)
           /\ kont' =
                 IF is_group(req)
                 THEN IF requirement_children(req) = <<>>
                      THEN Append(ButLast(kont), [Top EXCEPT !.at = "combine", !.node = id,
                                                             !.results = <<>>])
                      ELSE ButLast(kont)
                           \o << [Top EXCEPT !.at = "child", !.node = id, !.j = 1,
                                             !.results = <<>>],
                                 RequirementsFrame(<<requirement_children(req)[1]>>) >>
                 ELSE ButLast(kont)
                      \o << [Top EXCEPT !.at = "op", !.node = id], OperationFrame(req) >>
    /\ ret' = PyNone
    /\ UNCHANGED <<engine, context, accessed_paths, values_cache,
                   pc, result, calls, resolved, pops>>
    /\ UNCHANGED <<pending, arith_vars, enforce_vars>>

\* a child requirement of all / or has returned and another one follows
RequirementNextChild ==
    /\ Running
    /\ Top.f = "requirements" /\ Top.at = "child"
    /\ Top.j < Len(requirement_children(Top.requirements[Top.i]))
    /\ kont' = ButLast(kont)
               \o << [Top EXCEPT !.j = Top.j + 1, !.results = Append(Top.results, ret)],
                     RequirementsFrame(<<requirement_children(Top.requirements[Top.i])[Top.j + 1]>>) >>
    /\ ret' = PyNone
    /\ UNCHANGED <<engine, context, accessed_paths, values_cache, path, nodes,
                   pc, result, calls, resolved, pops>>
    /\ UNCHANGED <<pending, arith_vars, enforce_vars>>

\* requirement_outcome without the return on a falsy requirement: the loop
\* goes on to the last requirement
requirement_outcome_no_return(outcome, i, n) ==
    IF i < n THEN "next"
    ELSE IF Truthy(outcome) THEN "return True" ELSE "return False"

\* what the loop does with the result of requirement i: return False when it
\* is falsy, go on to requirement i + 1, or return True after the last one
requirement_outcome(outcome, i, n) ==
    IF ~Truthy(outcome) THEN "return False"
    ELSE IF i < n THEN "next" ELSE "return True"

\* requirement i is decided: its node gets the result and is popped
RequirementEnd ==
    /\ Running
    /\ Top.f = "requirements"
    /\ \/ Top.at \in {"op", "combine"}
       \/ Top.at = "child" /\ Top.j >= Len(requirement_children(Top.requirements[Top.i]))
    /\ LET req == Top.requirements[Top.i]
           outcome == CASE Top.at = "op" -> ret
                        [] Top.at = "child" -> combine_results(req, Append(Top.results, ret))
                        [] OTHER -> combine_results(req, <<>>)
           next == requirement_outcome(outcome, Top.i, Len(Top.requirements))
       IN  /\ nodes' = [nodes EXCEPT ![Top.node].result = outcome]
           /\ path' = pop_path(path)
           /\ pops' = pops + 1
           /\ kont' = IF next = "next"
                      THEN Append(ButLast(kont), [Top EXCEPT !.i = Top.i + 1, !.at = "loop"])
                      ELSE ButLast(kont)
           /\ ret' = IF next = "next" THEN PyNone ELSE PyBool(next = "return True")
    /\ UNCHANGED <<engine, context, accessed_paths, values_cache,
                   pc, result, calls, resolved>>
    /\ UNCHANGED <<pending, arith_vars, enforce_vars>>

(***************************************************************************)
(* RulesEngine.evaluate, from the return of _evaluate_requirements         *)
(***************************************************************************)
EvaluateRequirementsDone ==
    /\ Running
    /\ Top.f = "evaluate" /\ Top.at = "requirements"
    /\ nodes' = [nodes EXCEPT ![Top.requirements_node].result = ret]
    /\ path' = pop_path(path)
    /\ pops' = pops + 1
    /\ kont' = << [Top EXCEPT !.at = IF Truthy(ret) THEN "actions" ELSE "return",
                              !.requirements_met = ret,
                              !.input_values = values_cache,
                              !.output_values = EmptyDict] >>
    /\ ret' = PyNone
    /\ UNCHANGED <<engine, context, accessed_paths, values_cache,
                   pc, result, calls, resolved>>
    /\ UNCHANGED <<pending, arith_vars, enforce_vars>>

\* skips_action with "requested_output is not None" in place of the truth
\* value of requested_output
skips_action_not_none(requested_output, output_name) ==
    requested_output # PyNone /\ requested_output # PyStr(output_name)

\* "if requested_output and requested_output != output_name"
skips_action(requested_output, output_name) ==
    Truthy(requested_output) /\ requested_output # PyStr(output_name)

\* "continue": the action is not the requested output
ActionSkip ==
    /\ Running
    /\ Top.f = "evaluate" /\ Top.at = "actions"
    /\ Top.i <= Len(engine.actions)
    /\ skips_action(Top.requested_output, engine.actions[Top.i].f.output)
    /\ kont' = <<[Top EXCEPT !.i = Top.i + 1]>>
    /\ UNCHANGED <<engine, context, accessed_paths, values_cache, path, nodes,
                   pc, ret, result, calls, resolved, pops>>
    /\ UNCHANGED <<pending, arith_vars, enforce_vars>>

\* next(spec for spec in properties.output if spec.get('name') == output_name, {})
RECURSIVE find_output_spec(_, _, _)
find_output_spec(outputs, name, i) ==
    IF i > Len(outputs) THEN EmptyDict
    ELSE IF "name" \in DOMAIN outputs[i] /\ outputs[i].name = name THEN outputs[i]
    ELSE find_output_spec(outputs, name, i + 1)

\* f"@{self.service_name}.{output_name}"
service_path(service_name, output_name) == "@" \o service_name \o "." \o output_name

\* raw_result_from with the value of the action ahead of the override
raw_result_from_value_first(action, overwrite_input, key) ==
    IF "value" \in DOMAIN action.f THEN "value"
    ELSE IF key \in DOMAIN overwrite_input THEN "override"
    ELSE "operation"

\* where _evaluate_action takes the raw result from
raw_result_from(action, overwrite_input, key) ==
    IF key \in DOMAIN overwrite_input THEN "override"
    ELSE IF "value" \in DOMAIN action.f THEN "value"
    ELSE "operation"

\* the loop calls _evaluate_action: the action node is created and pushed,
\* and the raw result is the override or is to be evaluated
ActionBegin ==
    /\ Running
    /\ Top.f = "evaluate" /\ Top.at = "actions"
    /\ Top.i <= Len(engine.actions)
    /\ ~skips_action(Top.requested_output, engine.actions[Top.i].f.output)
    /\ LET action == engine.actions[Top.i]
           output_name == action.f.output
           node == PathNode("action", "Evaluate action for " \o output_name, EmptyDict)
           key == service_path(engine.service_name, output_name)
           from == raw_result_from(action, context.overwrite_input, key)
           frame == [f |-> "action", action |-> action, node |-> Len(nodes) + 1,
                     output_name |-> output_name, from |-> from,
                     output_spec |-> find_output_spec(
                                         GetOr(engine.spec.properties, "output", <<>>),
                                         output_name, 1)]
       IN  /\ nodes' = add_to_path_nodes(nodes, path, node)
           /\ path' = add_to_path(nodes, path)
           /\ kont' = CASE from = "override" -> Append(kont, frame)
                        [] from = "value" -> kont \o <<frame, ValueFrame(action.f.value)>>
                        [] OTHER -> kont \o <<frame, OperationFrame(action)>>
           /\ ret' = IF from = "override" THEN context.overwrite_input[key] ELSE PyNone
    /\ UNCHANGED <<engine, context, accessed_paths, values_cache,
                   pc, result, calls, resolved, pops>>
    /\ UNCHANGED <<pending, arith_vars, enforce_vars>>

\* the output with its metadata
output_def(value, output_spec) ==
    (IF "temporal" \in DOMAIN output_spec THEN [temporal |-> output_spec.temporal] ELSE EmptyDict)
    @@ (IF "type_spec" \in DOMAIN output_spec THEN [type_spec |-> output_spec.type_spec]
        ELSE EmptyDict)
    @@ [value |-> value,
        type |-> GetOr(output_spec, "type", "unknown"),
        description |-> GetOr(output_spec, "description", "")]

\* store_output that leaves an entry the map already has as it is
store_output_keep_first(output_values, output_name, def) ==
    IF output_name \in DOMAIN output_values THEN output_values
    ELSE Put(output_values, output_name, def)

\* output_values[output_name] = output_def
store_output(output_values, output_name, def) == Put(output_values, output_name, def)

\* the raw result is there: _evaluate_action enforces the output type and
\* returns, and the loop stores the output and pops the action node
ActionEnd ==
    /\ Running
    /\ Top.f = "action"
    /\ LET value == enforce_output_type(engine.output_specs, Top.output_name, ret)
           caller == kont[Len(kont) - 1]
       IN  /\ nodes' = [nodes EXCEPT ![Top.node].result = value]
           /\ kont' = << [caller EXCEPT !.i = caller.i + 1,
                                        !.output_values =
                                            store_output(caller.output_values, Top.output_name,
                                                         output_def(value, Top.output_spec))] >>
    /\ path' = pop_path(path)
    /\ pops' = pops + 1
    /\ ret' = PyNone
    /\ UNCHANGED <<engine, context, accessed_paths, values_cache,
                   pc, result, calls, resolved>>
    /\ UNCHANGED <<pending, arith_vars, enforce_vars>>

\* returned_input with input_values bound to the cache itself, not to a copy
returned_input_alias(input_values, cache) == cache

\* the 'input' of the result: input_values, the copy dict(context.values_cache)
\* made when the requirements had been evaluated; writes to the cache after
\* that do not reach it
returned_input(input_values, cache) == input_values

\* evaluate returns its result
EvaluateReturn ==
    /\ Running
    /\ Top.f = "evaluate"
    /\ \/ Top.at = "return"
       \/ Top.at = "actions" /\ Top.i > Len(engine.actions)
    /\ result' = [input |-> returned_input(Top.input_values, values_cache),
                  output |-> Top.output_values,
                  requirements_met |-> Top.requirements_met, path |-> 1]
    /\ pc' = "done"
    /\ kont' = <<>>
    /\ UNCHANGED <<engine, context, accessed_paths, values_cache, path, nodes,
                   ret, calls, resolved, pops>>
    /\ UNCHANGED <<pending, arith_vars, enforce_vars>>

(***************************************************************************)
(* RulesEngine._evaluate_operation, every branch but IF                    *)
(***************************************************************************)
\* The operation frame fr runs on from the point where the operands
\* vals are evaluated, until it calls for the next operand, raises, or
\* returns: the node store, the cursor, the frames that replace fr, the
\* value returned or raised, and the number of nodes popped.
op_continue(ns, cursor, fr, vals) ==
    LET ops == operands(fr.operation)
        j == Len(vals) + 1
        outcome == op_result(fr.operation, vals)
    IN  IF j <= Len(ops)
        THEN IF ops[j].ok
             THEN [nodes |-> ns, path |-> cursor,
                   frames |-> <<[fr EXCEPT !.at = "operand", !.vals = vals], ValueFrame(ops[j].term)>>,
                   ret |-> PyNone, pops |-> 0]
             ELSE [nodes |-> ns, path |-> cursor, frames |-> <<[fr EXCEPT !.vals = vals]>>,
                   ret |-> PyExc(ops[j].exc), pops |-> 0]
        ELSE IF IsExc(outcome)
             THEN [nodes |-> ns, path |-> cursor, frames |-> <<[fr EXCEPT !.vals = vals]>>,
                   ret |-> outcome, pops |-> 0]
             ELSE [nodes |-> [ns EXCEPT ![fr.node].result = outcome,
                                        ![fr.node].details = op_details(fr.operation, @, vals)],
                   path |-> pop_path(cursor), frames |-> <<>>,
                   ret |-> outcome, pops |-> 1]

\* _evaluate_operation is entered: the node of the branch is created and pushed
OperationBegin ==
    /\ Running
    /\ Top.f = "operation" /\ Top.at = "enter"
    /\ op_kind(Top.operation) # "IF"
    /\ LET go == op_continue(add_to_path_nodes(nodes, path, op_node(Top.operation)),
                             add_to_path(nodes, path),
                             [Top EXCEPT !.node = Len(nodes) + 1], <<>>)
       IN  /\ nodes' = go.nodes
           /\ path' = go.path
           /\ kont' = ButLast(kont) \o go.frames
           /\ ret' = go.ret
           /\ pops' = pops + go.pops
    /\ UNCHANGED <<engine, context, accessed_paths, values_cache, pc, result, calls, resolved>>
    /\ UNCHANGED <<pending, arith_vars, enforce_vars>>

\* an operand has been evaluated
OperationResume ==
    /\ Running
    /\ Top.f = "operation" /\ Top.at = "operand"
    /\ LET go == op_continue(nodes, path, Top, Append(Top.vals, ret))
       IN  /\ nodes' = go.nodes
           /\ path' = go.path
           /\ kont' = ButLast(kont) \o go.frames
           /\ ret' = go.ret
           /\ pops' = pops + go.pops
    /\ UNCHANGED <<engine, context, accessed_paths, values_cache, pc, result, calls, resolved>>
    /\ UNCHANGED <<pending, arith_vars, enforce_vars>>

(***************************************************************************)
(* RulesEngine._evaluate_if_operation, with the frame of the               *)
(* _evaluate_operation call that made it                                   *)
(***************************************************************************)
IfNode == PathNode("operation", "IF conditions", [condition_results |-> <<>>])

if_conditions(operation) == GetOr(operation.f, "conditions", <<>>)

\* the first condition from i on that has a test or an else
RECURSIVE first_branch(_, _)
first_branch(conds, i) ==
    IF i > Len(conds) \/ "test" \in DOMAIN conds[i] \/ "else" \in DOMAIN conds[i] THEN i
    ELSE first_branch(conds, i + 1)

\* append_condition that records nothing
append_condition_lost(ns, if_node, condition_result) == ns

\* if_node.details['condition_results'].append(condition_result)
append_condition(ns, if_node, condition_result) ==
    [ns EXCEPT ![if_node].details.condition_results = Append(@, condition_result)]

\* the conditions i..j-1 have neither test nor else: each leaves an entry
RECURSIVE append_skipped(_, _, _, _)
append_skipped(ns, if_node, i, j) ==
    IF i >= j THEN ns
    ELSE append_skipped(append_condition(ns, if_node, [condition_index |-> i - 1, type |-> "else"]),
                        if_node, i + 1, j)

\* the loop has ended with result outcome: both nodes get it and are popped
if_finish(ns, cursor, fr, outcome) ==
    [nodes |-> [ns EXCEPT ![fr.if_node].result = outcome, ![fr.node].result = outcome],
     path |-> pop_path(pop_path(cursor)), frames |-> <<>>, ret |-> outcome, pops |-> 2]

\* the loop runs on from condition i
if_continue(ns, cursor, fr, i) ==
    LET conds == if_conditions(fr.operation)
        j == first_branch(conds, i)
        ns1 == append_skipped(ns, fr.if_node, i, j)
    IN  IF j > Len(conds) THEN if_finish(ns1, cursor, fr, PyInt(0))
        ELSE IF "test" \in DOMAIN conds[j]
        THEN [nodes |-> ns1, path |-> cursor,
              frames |-> <<[fr EXCEPT !.at = "if_test", !.j = j], OperationFrame(conds[j].test)>>,
              ret |-> PyNone, pops |-> 0]
        ELSE [nodes |-> ns1, path |-> cursor,
              frames |-> <<[fr EXCEPT !.at = "if_else", !.j = j], ValueFrame(conds[j]["else"])>>,
              ret |-> PyNone, pops |-> 0]

\* _evaluate_operation is entered with an IF: its node and the IF node are
\* created and pushed, and the loop over the conditions starts
IfBegin ==
    /\ Running
    /\ Top.f = "operation" /\ Top.at = "enter"
    /\ op_kind(Top.operation) = "IF"
    /\ LET ns1 == add_to_path_nodes(nodes, path, op_node(Top.operation))
           cursor1 == add_to_path(nodes, path)
           go == if_continue(add_to_path_nodes(ns1, cursor1, IfNode), add_to_path(ns1, cursor1),
                             [Top EXCEPT !.node = Len(nodes) + 1, !.if_node = Len(nodes) + 2], 1)
       IN  /\ nodes' = go.nodes
           /\ path' = go.path
           /\ kont' = ButLast(kont) \o go.frames
           /\ ret' = go.ret
           /\ pops' = pops + go.pops
    /\ UNCHANGED <<engine, context, accessed_paths, values_cache, pc, result, calls, resolved>>
    /\ UNCHANGED <<pending, arith_vars, enforce_vars>>

\* the test of condition j has been evaluated
IfTestReturn ==
    /\ Running
    /\ Top.f = "operation" /\ Top.at = "if_test"
    /\ LET cond == if_conditions(Top.operation)[Top.j]
           go == IF Truthy(ret)
                 THEN IF "then" \in DOMAIN cond
                      THEN [nodes |-> nodes, path |-> path,
                            frames |-> <<[Top EXCEPT !.at = "if_then", !.test_result = ret],
                                         ValueFrame(cond["then"])>>,
                            ret |-> PyNone, pops |-> 0]
                      ELSE [nodes |-> nodes, path |-> path, frames |-> <<Top>>,
                            ret |-> PyExc("KeyError"), pops |-> 0]
                 ELSE if_continue(append_condition(nodes, Top.if_node,
                                                   [condition_index |-> Top.j - 1, type |-> "test",
                                                    test_result |-> ret]),
                                  path, Top, Top.j + 1)
       IN  /\ nodes' = go.nodes
           /\ path' = go.path
           /\ kont' = ButLast(kont) \o go.frames
           /\ ret' = go.ret
           /\ pops' = pops + go.pops
    /\ UNCHANGED <<engine, context, accessed_paths, values_cache, pc, result, calls, resolved>>
    /\ UNCHANGED <<pending, arith_vars, enforce_vars>>

\* the then or else value of condition j has been evaluated: break
IfBranchReturn ==
    /\ Running
    /\ Top.f = "operation" /\ Top.at \in {"if_then", "if_else"}
    /\ LET condition_result ==
               IF Top.at = "if_then"
               THEN [condition_index |-> Top.j - 1, type |-> "test",
                     test_result |-> Top.test_result, then_value |-> ret]
               ELSE [condition_index |-> Top.j - 1, type |-> "else", else_value |-> ret]
           go == if_finish(append_condition(nodes, Top.if_node, condition_result), path, Top, ret)
       IN  /\ nodes' = go.nodes
           /\ path' = go.path
           /\ kont' = ButLast(kont) \o go.frames
           /\ ret' = go.ret
           /\ pops' = pops + go.pops
    /\ UNCHANGED <<engine, context, accessed_paths, values_cache, pc, result, calls, resolved>>
    /\ UNCHANGED <<pending, arith_vars, enforce_vars>>

(***************************************************************************)
(* RulesEngine._evaluate_value and RuleContext.resolve_value               *)
(***************************************************************************)
\* isinstance(value, (int, float)): return value
ValueNumber ==
    /\ Running
    /\ Top.f = "value"
    /\ Top.value.k = "lit" /\ IsNumeric(Top.value.v)
    /\ ret' = Top.value.v
    /\ kont' = ButLast(kont)
    /\ UNCHANGED <<engine, context, accessed_paths, values_cache, path, nodes,
                   pc, result, calls, resolved, pops>>
    /\ UNCHANGED <<pending, arith_vars, enforce_vars>>

\* a mapping with an operation key: _evaluate_operation
ValueOperation ==
    /\ Running
    /\ Top.f = "value"
    /\ Top.value.k = "dict" /\ "operation" \in DOMAIN Top.value.f
    /\ kont' = Append(ButLast(kont), OperationFrame(Top.value))
    /\ UNCHANGED <<engine, context, accessed_paths, values_cache, path, nodes,
                   pc, ret, result, calls, resolved, pops>>
    /\ UNCHANGED <<pending, arith_vars, enforce_vars>>

\* a mapping as a value, returned as it is
PyMapping == [t |-> "dict", n |-> 0, d |-> 1, s |-> "", l |-> <<>>]

\* resolve_value on what is no reference: returned as it is
ResolvePlain ==
    /\ Running
    /\ Top.f = "value"
    /\ \/ Top.value.k = "lit" /\ ~IsNumeric(Top.value.v)
       \/ Top.value.k = "dict" /\ "operation" \notin DOMAIN Top.value.f
    /\ ret' = IF Top.value.k = "lit" THEN Top.value.v ELSE PyMapping
    /\ kont' = ButLast(kont)
    /\ UNCHANGED <<engine, context, accessed_paths, values_cache, path, nodes,
                   pc, result, calls, resolved, pops>>
    /\ UNCHANGED <<pending, arith_vars, enforce_vars>>

\* resolve_value on a reference that the calculation date, a definition, the
\* cache, an override or a source answers, or nothing does
ResolveReference ==
    /\ Running
    /\ Top.f = "value" /\ Top.value.k = "ref"
    /\ LET p == Top.value.p
           via == resolve_via(RuleContext, p)
           value == resolve_from(RuleContext, p, via)
       IN  /\ via # "service"
           /\ accessed_paths' = track_access(accessed_paths, p)
           /\ values_cache' = cache_after(values_cache, p, via, value)
           /\ context' = inputs_after(context, p, via, value)
           /\ ret' = value
           /\ resolved' = Append(resolved, [path |-> p, value |-> value, via |-> via,
                                            owner |-> Owner])
    /\ kont' = ButLast(kont)
    /\ UNCHANGED <<engine, path, nodes, pc, result, calls, pops>>
    /\ UNCHANGED <<pending, arith_vars, enforce_vars>>

\* resolve_value on a reference left to the ServiceProvider: get_value is
\* called (reading spec['temporal'] raises KeyError when the key is missing)
ResolveService ==
    /\ Running
    /\ Top.f = "value" /\ Top.value.k = "ref"
    /\ LET p == Top.value.p
           spec == engine.property_specs[p]
       IN  /\ resolve_via(RuleContext, p) = "service"
           /\ accessed_paths' = track_access(accessed_paths, p)
           /\ IF "temporal" \in DOMAIN spec
              THEN /\ calls' = Append(calls, [service |-> spec.service_reference.service,
                                              law |-> spec.service_reference.law,
                                              field |-> spec.service_reference.field,
                                              temporal |-> spec.temporal,
                                              context |-> context.service_context,
                                              overwrite_input |-> context.overwrite_input,
                                              path |-> p, owner |-> Owner])
                   /\ kont' = Append(ButLast(kont), [f |-> "get_value", path |-> p])
                   /\ ret' = PyNone
              ELSE /\ ret' = PyExc("KeyError")
                   /\ UNCHANGED <<calls, kont>>
    /\ UNCHANGED <<engine, context, values_cache, path, nodes, pc, result, resolved, pops>>
    /\ UNCHANGED <<pending, arith_vars, enforce_vars>>

\* get_value returns: the value is cached and returned
GetValueReturn ==
    /\ Running
    /\ Top.f = "get_value"
    /\ \E value \in ServiceVals :
          /\ values_cache' = cache_after(values_cache, Top.path, "service", value)
          /\ context' = inputs_after(context, Top.path, "service", value)
          /\ ret' = value
          /\ resolved' = Append(resolved, [path |-> Top.path, value |-> value, via |-> "service",
                                           owner |-> Owner])
    /\ kont' = ButLast(kont)
    /\ UNCHANGED <<engine, accessed_paths, path, nodes, pc, result, calls, pops>>
    /\ UNCHANGED <<pending, arith_vars, enforce_vars>>

\* an exception leaves every active call and evaluate; result records the
\* exception and the frame that raised it
Propagate ==
    /\ pc = "running"
    /\ IsExc(ret)
    /\ pc' = "raised"
    /\ result' = [exception |-> ret.s, frame |-> Top]
    /\ kont' = <<>>
    /\ UNCHANGED <<engine, context, accessed_paths, values_cache, path, nodes,
                   ret, calls, resolved, pops>>
    /\ UNCHANGED <<pending, arith_vars, enforce_vars>>

Next ==
    \/ Evaluate
    \/ RequirementsEmpty
    \/ RequirementBegin
    \/ RequirementNextChild
    \/ RequirementEnd
    \/ EvaluateRequirementsDone
    \/ ActionSkip
    \/ ActionBegin
    \/ ActionEnd
    \/ EvaluateReturn
    \/ OperationBegin
    \/ OperationResume
    \/ IfBegin
    \/ IfTestReturn
    \/ IfBranchReturn
    \/ ValueNumber
    \/ ValueOperation
    \/ ResolvePlain
    \/ ResolveReference
    \/ ResolveService
    \/ GetValueReturn
    \/ Propagate

Spec == Init /\ [][Next]_vars

\* most requirements plus actions of a law that is evaluated repeatedly, and
\* most evaluate calls made on one engine
MaxRepeatItems == 1
MaxEvaluations == 2

\* the same engine evaluated up to MaxEvaluations times, one call after the
\* other
InitRepeat == Constructed(MaxRepeatItems, MaxEvaluations)

SpecRepeat == InitRepeat /\ [][Next]_vars

(***************************************************************************)
(* Laws whose operations refer to several properties, to the output of an  *)
(* earlier action and to one output twice: the order of evaluation and the *)
(* separation of outputs from resolution show in their histories.          *)
(***************************************************************************)
ServiceProperty(name, field) ==
    [name |-> name, service_reference |-> [service |-> "S", law |-> "L", field |-> field],
     temporal |-> Temporal]

\* a law whose requirement and actions refer to the properties b, a and y in
\* that order of first use; y is also the output of its first action
OrderedLaw ==
    [service |-> "E", law |-> "law",
     properties |-> [definitions |-> DefinitionsPool[1],
                     input |-> <<ServiceProperty("a", "f"), ServiceProperty("b", "g"),
                                 ServiceProperty("y", "h")>>,
                     sources |-> <<>>,
                     output |-> OutputList],
     requirements |->
        << Op([all |-> << Op([operation |-> "EQUALS", subject |-> Ref("b"), value |-> Ref("a")]),
                          Op([operation |-> "OR", values |-> <<Ref("y"), Ref("b")>>]) >>]) >>,
     actions |->
        << Op([output |-> "y", operation |-> "ADD",
               values |-> << Ref("y"), Num(1),
                             Op([operation |-> "AND", values |-> <<Ref("a"), Lit(PyStr("x"))>>]),
                             Ref("d") >>]),
           Op([output |-> "x", operation |-> "IF",
               conditions |-> << [test |-> Op([operation |-> "GREATER_THAN", subject |-> Ref("d"),
                                               value |-> Ref("a")]),
                                  then |-> Ref("y")],
                                 [else |-> Lit(PyStr("adult"))] >>]) >>]

\* a law without requirements whose first action computes y, which is no
\* property and no definition, and whose next two actions both compute x
\* from $y
FeedbackLaw ==
    [service |-> "E", law |-> "law",
     properties |-> [definitions |-> DefinitionsPool[1],
                     input |-> <<ServiceProperty("a", "f"), ServiceProperty("b", "g")>>,
                     sources |-> <<>>,
                     output |-> OutputList],
     requirements |-> <<>>,
     actions |->
        << Op([output |-> "y", operation |-> "SUBTRACT_DATE", unit |-> "years",
               values |-> <<Ref("calculation_date"), Lit(PyStr("2000-03-11"))>>]),
           Op([output |-> "x", value |-> Ref("y")]),
           Op([output |-> "x", operation |-> "IF",
               conditions |-> << [test |-> Op([operation |-> "NOT_NULL", subject |-> Ref("y")]),
                                  then |-> Ref("b")],
                                 [else |-> Ref("d")] >>]) >>]

SequenceLaws == <<OrderedLaw, FeedbackLaw>>

\* the engine has been constructed, with a ServiceProvider, on one of the
\* laws above; no evaluate call has been made
InitSequence ==
    /\ \E k \in 1..Len(SequenceLaws) : engine = RulesEngine(SequenceLaws[k], TRUE)
    /\ context = NoContext
    /\ accessed_paths = {}
    /\ values_cache = EmptyDict
    /\ path = <<>>
    /\ nodes = <<>>
    /\ pc = "idle"
    /\ kont = <<>>
    /\ ret = PyNone
    /\ result = EmptyDict
    /\ calls = <<>>
    /\ resolved = <<>>
    /\ pops = 0
    /\ pending = 1
    /\ ArithIdle
    /\ EnforceIdle

SpecSequence == InitSequence /\ [][Next]_vars

\* the arithmetic tables on their own: no engine is evaluating
EngineOff ==
    /\ engine = RulesEngine(Law(<<>>, <<>>, 1, 1), FALSE)
    /\ context = NoContext
    /\ accessed_paths = {}
    /\ values_cache = EmptyDict
    /\ path = <<>>
    /\ nodes = <<>>
    /\ pc = "idle"
    /\ kont = <<>>
    /\ ret = PyNone
    /\ result = EmptyDict
    /\ calls = <<>>
    /\ resolved = <<>>
    /\ pops = 0
    /\ pending = 0

ArithInit ==
    /\ EngineOff
    /\ EnforceIdle
    /\ arith_pc = "call"
    /\ arith_op \in ARITHMETIC_OPS
    /\ arith_vals \in SeqsUpTo(NumPool, MaxVals)
    /\ arith_idx = 0
    /\ arith_acc = PyNone
    /\ arith_trail = <<>>
    /\ arith_result = PyNone

\* _evaluate_arithmetic on an empty list: return 0
ArithEmpty ==
    /\ arith_pc = "call"
    /\ arith_vals = <<>>
    /\ arith_result' = PyInt(0)
    /\ arith_pc' = "done"
    /\ UNCHANGED <<arith_op, arith_vals, arith_idx, arith_acc, arith_trail>>
    /\ UNCHANGED <<engine_vars, enforce_vars>>

\* DIVIDE with a zero among vals[1:]: the whole result is 0
ArithZeroDivisor ==
    /\ arith_pc = "call"
    /\ arith_vals # <<>>
    /\ arith_op = "DIVIDE" /\ zero_divisor(arith_vals)
    /\ arith_result' = PyInt(0)
    /\ arith_pc' = "done"
    /\ UNCHANGED <<arith_op, arith_vals, arith_idx, arith_acc, arith_trail>>
    /\ UNCHANGED <<engine_vars, enforce_vars>>

\* the fold starts
ArithStart ==
    /\ arith_pc = "call"
    /\ arith_vals # <<>>
    /\ ~(arith_op = "DIVIDE" /\ zero_divisor(arith_vals))
    /\ arith_acc' = fold_init(arith_op, arith_vals)
    /\ arith_idx' = fold_from(arith_op)
    /\ arith_trail' = <<fold_init(arith_op, arith_vals)>>
    /\ arith_pc' = "fold"
    /\ UNCHANGED <<arith_op, arith_vals, arith_result>>
    /\ UNCHANGED <<engine_vars, enforce_vars>>

\* one application of the table entry's two-argument step
ArithFold ==
    /\ arith_pc = "fold"
    /\ arith_idx <= Len(arith_vals)
    /\ arith_acc' = fold_step(arith_op, arith_acc, arith_vals[arith_idx])
    /\ arith_trail' = Append(arith_trail, arith_acc')
    /\ arith_idx' = arith_idx + 1
    /\ UNCHANGED <<arith_pc, arith_op, arith_vals, arith_result>>
    /\ UNCHANGED <<engine_vars, enforce_vars>>

\* the fold is over: its accumulator is the result
ArithReturn ==
    /\ arith_pc = "fold"
    /\ arith_idx > Len(arith_vals)
    /\ arith_result' = arith_acc
    /\ arith_pc' = "done"
    /\ UNCHANGED <<arith_op, arith_vals, arith_idx, arith_acc, arith_trail>>
    /\ UNCHANGED <<engine_vars, enforce_vars>>

ArithNext ==
    \/ ArithEmpty
    \/ ArithZeroDivisor
    \/ ArithStart
    \/ ArithFold
    \/ ArithReturn

SpecArith == ArithInit /\ [][ArithNext]_vars

(***************************************************************************)
(* TypeSpec.enforce on its own: every TypeSpec of the pools with            *)
(* min <= max, applied to every value of the pool, and to the result.      *)
(***************************************************************************)
\* largest precision of a TypeSpec
MaxPrecision == 2

UnitPool == {PyNone, PyStr("eurocent")}
PrecisionPool == {PyNone} \cup {PyInt(k) : k \in 0..MaxPrecision}
\* min and max: unset, 0, 10, and the floats -0.5, 0.5 and 12.25
BoundPool == {PyNone, PyInt(0), PyInt(10), PyFloat(-1, 2), PyFloat(1, 2), PyFloat(49, 4)}
\* null, a non-numeric string, a list, numeric strings, a bool, integers and
\* the floats 0.125, 2.5, -0.75, 10.5 and 12.3125
ValuePool ==
    {PyNone, PyStr("x"), PyList(<<>>), PyStr("12.5"), PyStr("150"), PyBool(TRUE),
     PyInt(-7), PyInt(3), PyInt(150),
     PyFloat(1, 8), PyFloat(5, 2), PyFloat(-3, 4), PyFloat(21, 2), PyFloat(197, 16)}

EnforceInit ==
    /\ EngineOff
    /\ ArithIdle
    /\ enforce_pc = "call"
    /\ \E unit \in UnitPool, precision \in PrecisionPool, min \in BoundPool, max \in BoundPool :
          /\ (min.t # "none" /\ max.t # "none") => ~NumLt(max, min)
          /\ enforce_spec = TypeSpec(unit, precision, min, max)
    /\ enforce_value \in ValuePool
    /\ enforce_first = PyNone
    /\ enforce_second = PyNone

\* r = spec.enforce(value)
EnforceCall ==
    /\ enforce_pc = "call"
    /\ enforce_first' = enforce(enforce_spec, enforce_value)
    /\ enforce_pc' = "once"
    /\ UNCHANGED <<enforce_spec, enforce_value, enforce_second>>
    /\ UNCHANGED <<engine_vars, arith_vars>>

\* spec.enforce(r)
EnforceAgain ==
    /\ enforce_pc = "once"
    /\ enforce_second' = enforce(enforce_spec, enforce_first)
    /\ enforce_pc' = "twice"
    /\ UNCHANGED <<enforce_spec, enforce_value, enforce_first>>
    /\ UNCHANGED <<engine_vars, arith_vars>>

EnforceNext ==
    \/ EnforceCall
    \/ EnforceAgain

SpecEnforce == EnforceInit /\ [][EnforceNext]_vars

(***************************************************************************)
(* Claims about evaluate (checked under Spec)                              *)
(***************************************************************************)
\* the references a requirement, an action or a value can resolve
RECURSIVE refs_of(_)
refs_of(term) ==
    IF term.k = "ref" THEN {term.p}
    ELSE IF term.k = "lit" THEN {}
    ELSE IF is_group(term)
    THEN UNION {refs_of(requirement_children(term)[i]) :
                    i \in 1..Len(requirement_children(term))}
    ELSE IF op_kind(term) = "IF"
    THEN UNION {UNION {refs_of(if_conditions(term)[i][key]) :
                           key \in DOMAIN if_conditions(term)[i] \cap {"test", "then", "else"}} :
                    i \in 1..Len(if_conditions(term))}
    ELSE UNION {refs_of(operands(term)[i].term) :
                    i \in {j \in 1..Len(operands(term)) : operands(term)[j].ok}}

\* evaluate is at its return statement; its frame holds what it returns
Returning ==
    /\ pc = "running" /\ Len(kont) = 1 /\ ~IsExc(ret)
    /\ kont[1].at = "return" \/ (kont[1].at = "actions" /\ kont[1].i > Len(engine.actions))

\* the nodes of the top-level requirements evaluated so far
RequirementNodes == IF Len(nodes) >= 2 THEN nodes[2].children ELSE <<>>

\* the references of the first n top-level requirements
requirement_refs(n) == UNION {refs_of(engine.requirements[k]) : k \in 1..n}

\* the override key of the output of action i is in overwrite_input
output_overridden(i) ==
    service_path(engine.service_name, engine.actions[i].f.output) \in DOMAIN context.overwrite_input

\* the value resolve_value takes from overwrite_input, and from sources, for p
override_value(p) == context.overwrite_input[service_field_key(RuleContext, p)]
source_value(p) ==
    context.sources.tables[source_ref_of(RuleContext, p).table][source_ref_of(RuleContext, p).field]

\* C1 as stated: every reference resolved with both an override and a source
\* value returns the override value; every reference resolved with both a
\* source value and a service reference under a ServiceProvider returns the
\* source value, and get_value is not called for it.
C1_OverrideWinsThenSource ==
    \A k \in 1..Len(resolved) :
        LET p == resolved[k].path
        IN  /\ (has_override(RuleContext, p) /\ has_source(RuleContext, p)) =>
                  resolved[k].value = override_value(p)
            /\ (has_source(RuleContext, p) /\ has_service(RuleContext, p)) =>
                  /\ resolved[k].value = source_value(p)
                  /\ \A j \in 1..Len(calls) : calls[j].path # p

\* C1 amended: for every reference p that is not calculation_date and not a
\* key of the definitions (those are answered first, whatever else is
\* supplied): with both an override and a source value the override value is
\* returned; with a source value and a service reference under a
\* ServiceProvider, and no override, the source value is returned; and
\* whenever p has a source value get_value is not called for p.
C1_OverrideWinsThenSourceUnlessDefined ==
    \A k \in 1..Len(resolved) :
        LET p == resolved[k].path
        IN  /\ (p # "calculation_date" /\ p \notin DOMAIN engine.definitions) =>
                  /\ (has_override(RuleContext, p) /\ has_source(RuleContext, p)) =>
                        resolved[k].value = override_value(p)
                  /\ (has_source(RuleContext, p) /\ has_service(RuleContext, p)
                      /\ ~has_override(RuleContext, p)) =>
                        resolved[k].value = source_value(p)
            /\ has_source(RuleContext, p) => \A j \in 1..Len(calls) : calls[j].path # p

\* C1 witness: $a has been resolved with an override (42), a source value (7)
\* and a service reference under a ServiceProvider, and 42 was returned
C1_Witness ==
    \E k \in 1..Len(resolved) :
        /\ resolved[k].path = "a"
        /\ "a" \notin DOMAIN engine.definitions
        /\ has_override(RuleContext, "a")
        /\ has_source(RuleContext, "a")
        /\ has_service(RuleContext, "a")
        /\ resolved[k].via = "override"
        /\ resolved[k].value = PyInt(42)

\* C2: within one evaluate call a reference resolved twice gets the same
\* value the second time as the first (also when the first answer was null
\* from the ServiceProvider), and get_value is called at most once per path.
C2_CacheDeterminism ==
    /\ \A i, j \in 1..Len(resolved) :
          (i < j /\ resolved[i].path = resolved[j].path) =>
              /\ resolved[j].value = resolved[i].value
              /\ resolved[j].via # "service"
    /\ \A i, j \in 1..Len(calls) : (i < j) => calls[i].path # calls[j].path

\* C2 witness: $a was answered null by the ServiceProvider and resolved again
\* from the cache, with one get_value call
C2_Witness ==
    \E i, j \in 1..Len(resolved) :
        /\ i < j
        /\ resolved[i].path = "a" /\ resolved[j].path = "a"
        /\ resolved[i].via = "service" /\ resolved[i].value = PyNone
        /\ resolved[j].via = "cache" /\ resolved[j].value = PyNone
        /\ Len(calls) = 1

\* C3: the top-level requirements are traversed in order, and after a falsy
\* requirement i no requirement j > i is evaluated: it gets no trace node, no
\* reference of it is resolved (accessed_paths and values_cache hold only
\* references of the requirements up to i), no get_value call is made for it,
\* and evaluate returns requirements_met false with no output.
C3_RequirementShortCircuit ==
    LET n == Len(RequirementNodes)
        inRequirements == pc = "running" /\ kont # <<>> /\ kont[1].at \in {"requirements", "return"}
        notMet == pc = "done" /\ ~Truthy(result.requirements_met)
    IN  /\ n <= Len(engine.requirements)
        /\ \A k \in 1..(n - 1) : Truthy(nodes[RequirementNodes[k]].result)
        /\ (inRequirements \/ notMet) =>
              /\ accessed_paths \subseteq requirement_refs(n)
              /\ DOMAIN values_cache \subseteq requirement_refs(n)
              /\ \A j \in 1..Len(calls) : calls[j].path \in requirement_refs(n)
        /\ notMet =>
              /\ n >= 1
              /\ ~Truthy(nodes[RequirementNodes[n]].result)
              /\ result.requirements_met = PyBool(FALSE)
              /\ result.output = EmptyDict
        /\ (pc = "done" /\ n >= 1 /\ ~Truthy(nodes[RequirementNodes[n]].result)) => notMet

\* C3 witness: evaluate has returned requirements_met false on a law of two
\* requirements whose first one was falsy; the second one, which refers to
\* $d, has no node and $d was not accessed
C3_Witness ==
    /\ pc = "done"
    /\ result.requirements_met = PyBool(FALSE)
    /\ Len(engine.requirements) = 2
    /\ Len(RequirementNodes) = 1
    /\ "d" \in refs_of(engine.requirements[2])
    /\ "d" \notin accessed_paths

\* the outputs of the actions of the law
ActionOutputs == {engine.actions[i].f.output : i \in 1..Len(engine.actions)}

\* C4 as stated: output contains name iff requirements were met, name is the
\* output of some action and requested_output is null or equals name; for
\* every non-null requested_output X (the empty string included) output has
\* at most one entry and its key is X; when requirements are not met output
\* is empty and no action is evaluated.
C4_OutputIffRequestedOrNull ==
    Returning =>
        LET out == DOMAIN kont[1].output_values
            met == Truthy(kont[1].requirements_met)
            X == kont[1].requested_output
        IN  /\ \A name \in out \cup ActionOutputs :
                  name \in out <=>
                      (met /\ name \in ActionOutputs /\ (X = PyNone \/ X = PyStr(name)))
            /\ X # PyNone => (Cardinality(out) <= 1 /\ \A name \in out : X = PyStr(name))
            /\ ~met => (out = {} /\ nodes[1].children = <<2>>)

\* C4 amended: output contains name iff requirements were met, name is the
\* output of some action and requested_output is null, is the empty string or
\* equals name; for every non-empty requested_output X output has at most one
\* entry and its key is X (the empty string filters nothing, as null does);
\* when requirements are not met output is empty and no action is evaluated.
C4_OutputIffRequestedOrEmpty ==
    Returning =>
        LET out == DOMAIN kont[1].output_values
            met == Truthy(kont[1].requirements_met)
            X == kont[1].requested_output
        IN  /\ \A name \in out \cup ActionOutputs :
                  name \in out <=>
                      (met /\ name \in ActionOutputs
                       /\ (X = PyNone \/ X = PyStr("") \/ X = PyStr(name)))
            /\ (X # PyNone /\ X # PyStr("")) =>
                  (Cardinality(out) <= 1 /\ \A name \in out : X = PyStr(name))
            /\ ~met => (out = {} /\ nodes[1].children = <<2>>)

\* C4 witness: evaluate returns with requested_output x on a law with an
\* action for x and an action for y: output holds x alone
C4_Witness ==
    /\ Returning
    /\ kont[1].requested_output = PyStr("x")
    /\ ActionOutputs = {"x", "y"}
    /\ DOMAIN kont[1].output_values = {"x"}

\* the actions whose output is not overridden, among the first n
computed_action_refs(n) ==
    UNION {refs_of(engine.actions[i]) : i \in {j \in 1..n : ~output_overridden(j)}}

\* the name of the trace node of an action for output X
action_node_name(X) == "Evaluate action for " \o X

\* C5: when the key @{engine service}.{X} is in overwrite_input and X is the
\* output of an action, evaluating that action executes no operation (its
\* node has no children), resolves no reference of the action (nothing is
\* resolved, accessed or cached on its behalf), makes no ServiceProvider call,
\* and the output value is the override value passed through the TypeSpec of
\* the output.
C5_OutputOverrideBypass ==
    (pc \in {"running", "done"}) =>
        /\ \A k \in 1..Len(resolved) :
              resolved[k].owner.phase = "action" => ~output_overridden(resolved[k].owner.i)
        /\ \A k \in 1..Len(calls) :
              calls[k].owner.phase = "action" => ~output_overridden(calls[k].owner.i)
        /\ accessed_paths \subseteq
              requirement_refs(Len(engine.requirements)) \cup computed_action_refs(Len(engine.actions))
        /\ DOMAIN values_cache \subseteq
              requirement_refs(Len(engine.requirements)) \cup computed_action_refs(Len(engine.actions))
        /\ \A i \in 1..Len(engine.actions) :
              LET X == engine.actions[i].f.output
                  value == enforce_output_type(engine.output_specs, X,
                               context.overwrite_input[service_path(engine.service_name, X)])
              IN  output_overridden(i) =>
                      /\ \A m \in 1..Len(nodes) :
                            (nodes[m].type = "action" /\ nodes[m].name = action_node_name(X)) =>
                                /\ nodes[m].children = <<>>
                                /\ nodes[m].result \in {PyNone, value}
                      /\ (pc = "done" /\ X \in DOMAIN result.output) =>
                            result.output[X].value = value
                      /\ (pc = "running" /\ kont # <<>> /\ Top.f = "action" /\ Top.output_name = X) =>
                            /\ Top.from = "override"
                            /\ ret = context.overwrite_input[service_path(engine.service_name, X)]

\* C5 witness: evaluate has returned x = 100, the override 250 of @E.x passed
\* through the TypeSpec of x (max 100, eurocent), on a law whose action for x
\* refers to $a; nothing was accessed
C5_Witness ==
    /\ pc = "done"
    /\ Len(engine.actions) = 1
    /\ engine.actions[1].f.output = "x"
    /\ "a" \in refs_of(engine.actions[1])
    /\ "@E.x" \in DOMAIN context.overwrite_input
    /\ context.overwrite_input["@E.x"] = PyInt(250)
    /\ "x" \in DOMAIN result.output
    /\ result.output.x.value = PyInt(100)
    /\ accessed_paths = {}
    /\ Len(nodes) = 3

\* an operation mapping whose kind is unknown or absent, or that lacks a field
\* its kind reads
malformed(operation) ==
    /\ operation.k = "dict"
    /\ \/ op_kind(operation) \in {"TypeError", "invalid"}
       \/ \E j \in 1..Len(operands(operation)) : ~operands(operation)[j].ok

\* C6 as stated: an operation mapping whose kind is unknown or absent, or that
\* lacks a field required by its kind, raises no exception: evaluate_operation
\* returns 0 with details.error set on its node, and the evaluate call still
\* returns a result.
C6_MalformedOperationNotFatal ==
    /\ (pc = "running" /\ kont # <<>> /\ Top.f = "operation" /\ malformed(Top.operation)) =>
          ~IsExc(ret)
    /\ pc = "raised" => ~(result.frame.f = "operation" /\ malformed(result.frame.operation))

\* C7: during an evaluate call the cursor stack is non-empty with the root at
\* its bottom, and is the chain of the nodes pushed and not yet popped; each
\* node pushed is popped once on every control path that does not raise (the
\* return of a falsy requirement and the break out of an IF included), and
\* when evaluate returns the stack is the root alone.
C7_TraceCursorStack ==
    /\ pc = "running" =>
          /\ path # <<>>
          /\ path[1] = 1
          /\ Len(path) = Len(nodes) - pops
          /\ \A k \in 1..(Len(path) - 1) :
                /\ nodes[path[k]].children # <<>>
                /\ path[k + 1] = Last(nodes[path[k]].children)
    /\ pc = "done" =>
          /\ path = <<1>>
          /\ pops = Len(nodes) - 1

\* C7 witness: evaluate has returned after an IF took a branch; the stack is
\* the root alone and every other node was popped
C7_Witness ==
    /\ pc = "done"
    /\ path = <<1>>
    /\ pops = Len(nodes) - 1
    /\ \E m \in 1..Len(nodes) :
          /\ nodes[m].name = "IF conditions"
          /\ nodes[m].details.condition_results # <<>>
          /\ "else_value" \in DOMAIN Last(nodes[m].details.condition_results)

\* the trace nodes of which m is a child
parents(m) == {p \in 1..Len(nodes) : \E k \in 1..Len(nodes[p].children) : nodes[p].children[k] = m}

\* the number of times m occurs among the children of the nodes
attachments(m) ==
    Cardinality({pk \in (1..Len(nodes)) \X (1..Len(nodes)) :
                    pk[2] <= Len(nodes[pk[1]].children) /\ nodes[pk[1]].children[pk[2]] = m})

\* the names of the nodes of the actions evaluate executes, in action order
RECURSIVE executed_action_names(_, _)
executed_action_names(requested_output, i) ==
    IF i > Len(engine.actions) THEN <<>>
    ELSE (IF requested_output \in {PyNone, PyStr("")}
             \/ requested_output = PyStr(engine.actions[i].f.output)
          THEN <<action_node_name(engine.actions[i].f.output)>> ELSE <<>>)
         \o executed_action_names(requested_output, i + 1)

\* the root has the requirements node and then the nodes of the executed
\* actions as children, and every other node is attached to one parent, once
root_and_attachment ==
    LET kids == nodes[1].children
        met == Truthy(kont[1].requirements_met)
    IN  /\ kids # <<>>
        /\ kids[1] = 2
        /\ nodes[2].type = "requirements"
        /\ [k \in 1..(Len(kids) - 1) |-> nodes[kids[k + 1]].name]
               = (IF met THEN executed_action_names(kont[1].requested_output, 1) ELSE <<>>)
        /\ \A k \in 2..Len(kids) : nodes[kids[k]].type = "action"
        /\ parents(1) = {}
        /\ \A m \in 2..Len(nodes) : attachments(m) = 1

\* C8 as stated: when evaluate returns, the children of the root are the
\* requirements node and then one action node per executed action in action
\* order, the requirements node has one child per top-level requirement of
\* the specification, and every node is the child of exactly one parent.
C8_OneChildPerRequirement ==
    Returning =>
        /\ root_and_attachment
        /\ Len(nodes[2].children) = Len(engine.requirements)

\* C8 amended: when evaluate returns, the children of the root are the
\* requirements node and then one action node per executed action in action
\* order; the requirements node has one child per top-level requirement that
\* was evaluated, which is every requirement when they are met and the
\* requirements up to and including the first falsy one otherwise; and every
\* node is the child of exactly one parent.
C8_OneChildPerEvaluatedRequirement ==
    Returning =>
        LET n == Len(nodes[2].children)
            met == Truthy(kont[1].requirements_met)
        IN  /\ root_and_attachment
            /\ n <= Len(engine.requirements)
            /\ met => n = Len(engine.requirements)
            /\ ~met => (n >= 1 /\ ~Truthy(nodes[nodes[2].children[n]].result))
            /\ \A k \in 1..n : nodes[nodes[2].children[k]].type = "requirement"
            /\ \A k \in 1..(n - 1) : Truthy(nodes[nodes[2].children[k]].result)

\* C8 witness: evaluate returns on a law of one requirement, met, and one
\* action, executed: the root has the requirements node, with one child, and
\* the action node
C8_Witness ==
    /\ Returning
    /\ Truthy(kont[1].requirements_met)
    /\ Len(engine.requirements) = 1
    /\ Len(engine.actions) = 1
    /\ Len(nodes[2].children) = 1
    /\ Len(nodes[1].children) = 2
    /\ nodes[nodes[1].children[2]].type = "action"

(***************************************************************************)
(* Claims about the cache, the inputs and the trace of evaluate            *)
(***************************************************************************)
\* the value the first provider of p supplies, in the order override, source,
\* ServiceProvider (whose answer is the value get_value is returning)
first_provider_value(p, returned) ==
    IF has_override(RuleContext, p) THEN override_value(p)
    ELSE IF has_source(RuleContext, p) THEN source_value(p)
    ELSE returned

\* C11: while an evaluate call runs, a path once in values_cache stays in it
\* with the same value; a path entering values_cache gets the value of its
\* first provider in the order override, source, ServiceProvider; and a call
\* that starts, also on an engine that has evaluated before, starts with an
\* empty values_cache.
C11_WriteOnceCache ==
    [][ /\ pc = "running" =>
              /\ \A p \in DOMAIN values_cache :
                    p \in DOMAIN values_cache' /\ values_cache'[p] = values_cache[p]
              /\ \A p \in DOMAIN values_cache' \ DOMAIN values_cache :
                    /\ values_cache'[p] = first_provider_value(p, ret')
                    /\ \/ has_override(RuleContext, p)
                       \/ has_source(RuleContext, p)
                       \/ has_service(RuleContext, p) /\ Top.f = "get_value" /\ Top.path = p
        /\ (pc # "running" /\ pc' = "running") => values_cache' = EmptyDict ]_vars

\* C11 witness: in a call that is not the first on its engine, $a was cached
\* from its override and a later reference to $a was answered from the cache
C11_Witness ==
    /\ pending + 2 <= MaxEvaluations
    /\ "a" \in DOMAIN values_cache
    /\ \E j, k \in 1..Len(resolved) :
          /\ j < k
          /\ resolved[j].path = "a" /\ resolved[j].via = "override"
          /\ resolved[k].path = "a" /\ resolved[k].via = "cache"
          /\ values_cache["a"] = resolved[j].value

\* C13 as stated: a reference left to the ServiceProvider (not answered by
\* calculation_date, definitions, cache, override or source; its property has
\* a service_reference, with or without a temporal descriptor; a provider is
\* configured) does not raise: get_value is called once for it with service,
\* law, field, temporal, service_context and overwrite_input, and the value
\* returned is cached and returned; a reference no step answers resolves to
\* null and is not cached.
C13_ServiceLookupStep ==
    /\ (pc = "running" /\ kont # <<>> /\ Top.f = "value" /\ Top.value.k = "ref"
        /\ resolve_via(RuleContext, Top.value.p) = "service") => ~IsExc(ret)
    /\ pc = "raised" =>
          ~(/\ result.frame.f = "value" /\ result.frame.value.k = "ref"
            /\ resolve_via(RuleContext, result.frame.value.p) = "service")
    /\ \A k \in 1..Len(resolved) :
          LET p == resolved[k].path
          IN  /\ resolved[k].via = "service" =>
                    /\ Cardinality({j \in 1..Len(calls) : calls[j].path = p}) = 1
                    /\ \A j \in 1..Len(calls) :
                          calls[j].path = p =>
                             /\ calls[j].service = engine.property_specs[p].service_reference.service
                             /\ calls[j].law = engine.property_specs[p].service_reference.law
                             /\ calls[j].field = engine.property_specs[p].service_reference.field
                             /\ calls[j].context = context.service_context
                             /\ calls[j].overwrite_input = context.overwrite_input
                    /\ p \in DOMAIN values_cache /\ values_cache[p] = resolved[k].value
              /\ resolved[k].via = "none" =>
                    resolved[k].value = PyNone /\ p \notin DOMAIN values_cache

\* C14: from the start of an evaluate call to its return (or to the exception
\* that ends it) the engine's specification, built tables and provider, and
\* the caller's overwrite_input, sources and service_context, are unchanged;
\* a step of the call writes values_cache, accessed_paths, the cursor stack
\* and the trace nodes only.
C14_ReadOnlyInputs ==
    [][ /\ engine' = engine
        /\ pc = "running" => context' = context ]_vars

\* C14 witness: evaluate has returned having cached the source value of $a
\* and computed an output, under a non-empty overwrite_input and sources
C14_Witness ==
    /\ pc = "done"
    /\ "a" \in DOMAIN values_cache
    /\ \E k \in 1..Len(resolved) : resolved[k].via = "source"
    /\ DOMAIN context.overwrite_input # {}
    /\ sources_truthy(RuleContext)
    /\ DOMAIN result.output # {}

\* the entries of the history resolved in which a step wrote values_cache
\* while the requirements (phase "requirement") or the actions (phase
\* "action") were evaluated
cached_during(phase) ==
    {k \in 1..Len(resolved) :
        /\ resolved[k].owner.phase = phase
        /\ resolved[k].via \in {"override", "source", "service"}}

\* C15: the input map evaluate returns is values_cache as it stood when the
\* requirements had been evaluated: it holds exactly the paths cached while
\* the requirements were evaluated, with the values cached then; a path first
\* cached while an action was evaluated is not in it.
C15_InputSnapshot ==
    pc = "done" =>
        /\ DOMAIN result.input = {resolved[k].path : k \in cached_during("requirement")}
        /\ \A k \in cached_during("requirement") :
              result.input[resolved[k].path] = resolved[k].value
        /\ \A k \in cached_during("action") :
              /\ resolved[k].path \notin DOMAIN result.input
              /\ resolved[k].path \in DOMAIN values_cache

\* C15 witness: evaluate has returned; $a was first cached while an action was
\* evaluated, and the input map is empty
C15_Witness ==
    /\ pc = "done"
    /\ \E k \in cached_during("action") : resolved[k].path = "a"
    /\ "a" \in DOMAIN values_cache
    /\ result.input = EmptyDict

\* the bare paths of the references of the law
law_refs ==
    UNION ({refs_of(engine.requirements[i]) : i \in 1..Len(engine.requirements)}
           \cup {refs_of(engine.actions[i]) : i \in 1..Len(engine.actions)})

\* every reference handed to resolve_value so far, answered, raising or
\* waiting for get_value, has its bare path in accessed_paths
resolved_are_tracked ==
    /\ \A k \in 1..Len(resolved) : resolved[k].path \in accessed_paths
    /\ (pc = "running" /\ kont # <<>> /\ Top.f = "get_value") => Top.path \in accessed_paths
    /\ (pc = "running" /\ kont # <<>> /\ Top.f = "value" /\ Top.value.k = "ref" /\ IsExc(ret)) =>
          Top.value.p \in accessed_paths

\* C16 as stated: no entry of accessed_paths begins with '$', and the
\* remainder after the '$' of every reference passed to resolve_value is in
\* accessed_paths, whatever step answers it.
C16_AccessTracking ==
    /\ \A p \in accessed_paths : ~startswith_dollar(p)
    /\ resolved_are_tracked

\* C16 amended: every entry of accessed_paths is the remainder after the first
\* '$' of a reference of the law that was passed to resolve_value (so it
\* begins with '$' itself when the reference began with "$$"), and the
\* remainder of every reference passed to resolve_value is in accessed_paths,
\* whatever step answers it.
C16_AccessTrackingOfRemainders ==
    /\ \A p \in accessed_paths :
          /\ p \in law_refs
          /\ \/ \E k \in 1..Len(resolved) : resolved[k].path = p
             \/ pc = "running" /\ kont # <<>> /\ Top.f = "get_value" /\ Top.path = p
             \/ /\ pc = "running" /\ kont # <<>> /\ IsExc(ret)
                /\ Top.f = "value" /\ Top.value.k = "ref" /\ Top.value.p = p
             \/ /\ pc = "raised"
                /\ result.frame.f = "value" /\ result.frame.value.k = "ref"
                /\ result.frame.value.p = p
    /\ resolved_are_tracked

\* C16 witness: evaluate has returned after resolving $a (from a provider),
\* $d (a definition) and the unresolved "$$u"; all three remainders are
\* tracked
C16_Witness ==
    /\ pc = "done"
    /\ accessed_paths = {"a", "d", "$u"}
    /\ \E k \in 1..Len(resolved) : resolved[k].path = "d" /\ resolved[k].via = "definition"
    /\ \E k \in 1..Len(resolved) : resolved[k].path = "$u" /\ resolved[k].via = "none"

\* the actions of the law that are IF operations (a law of the model has at
\* most one), and the IF nodes of the trace whose evaluation has ended
if_actions == {i \in 1..Len(engine.actions) : op_kind(engine.actions[i]) = "IF"}
if_nodes == {n \in 1..Len(nodes) : nodes[n].name = "IF conditions"}
popped(n) == \A k \in 1..Len(path) : path[k] # n

\* the entry records a condition that did not select a branch: a falsy test
\* whose then was not evaluated, or a condition with neither test nor else
passed_over(cond, entry) ==
    \/ /\ "test" \in DOMAIN cond
       /\ entry.type = "test" /\ ~Truthy(entry.test_result)
       /\ "then_value" \notin DOMAIN entry
    \/ /\ "test" \notin DOMAIN cond /\ "else" \notin DOMAIN cond
       /\ entry.type = "else" /\ "else_value" \notin DOMAIN entry

\* value is what evaluate_value gives for term on behalf of action i
value_given(term, value, i) ==
    IF term.k = "lit" THEN value = term.v
    ELSE IF term.k = "ref"
    THEN \E k \in 1..Len(resolved) :
            /\ resolved[k].path = term.p /\ resolved[k].value = value
            /\ resolved[k].owner = [phase |-> "action", i |-> i]
    ELSE TRUE

\* the references the IF may have resolved when its last entry is number k
\* and that entry selected the term branch (or none, branch = <<>>)
if_refs(conds, k, branch) ==
    UNION ({refs_of(conds[m].test) : m \in {j \in 1..k : "test" \in DOMAIN conds[j]}}
           \cup {refs_of(branch[m]) : m \in 1..Len(branch)})

\* C17: an IF goes through its conditions in order, with one entry of
\* details.condition_results per condition attempted; it returns the then
\* value of the first condition with a truthy test, or the else value of an
\* else condition reached before that, or 0 after the last condition; the
\* then of a falsy test and the conditions after the selected one are not
\* evaluated, so none of their references is resolved.
C17_IfSelectsFirstBranch ==
    \A n \in if_nodes : \A i \in if_actions :
        LET conds == if_conditions(engine.actions[i])
            cr == nodes[n].details.condition_results
            k == Len(cr)
            out == nodes[n].result
            by_action == {resolved[j].path : j \in {m \in 1..Len(resolved) :
                              resolved[m].owner = [phase |-> "action", i |-> i]}}
        IN  /\ k <= Len(conds)
            /\ \A m \in 1..k : cr[m].condition_index = m - 1
            /\ \A m \in 1..(k - 1) : passed_over(conds[m], cr[m])
            /\ popped(n) =>
                  \/ /\ k = Len(conds)
                     /\ \A m \in 1..k : passed_over(conds[m], cr[m])
                     /\ out = PyInt(0)
                     /\ by_action \subseteq if_refs(conds, k, <<>>)
                  \/ /\ k >= 1
                     /\ "test" \in DOMAIN conds[k]
                     /\ cr[k].type = "test" /\ Truthy(cr[k].test_result)
                     /\ cr[k].then_value = out
                     /\ value_given(conds[k]["then"], out, i)
                     /\ by_action \subseteq if_refs(conds, k, <<conds[k]["then"]>>)
                  \/ /\ k >= 1
                     /\ "test" \notin DOMAIN conds[k] /\ "else" \in DOMAIN conds[k]
                     /\ cr[k].type = "else"
                     /\ cr[k].else_value = out
                     /\ value_given(conds[k]["else"], out, i)
                     /\ by_action \subseteq if_refs(conds, k, <<conds[k]["else"]>>)

\* C17 witness: an IF has ended on its else after a falsy comparison, a
\* condition with neither test nor else and a falsy reference: four entries,
\* and the then of the third condition ($calculation_date) was not resolved
C17_Witness ==
    \E n \in if_nodes :
        /\ popped(n)
        /\ Len(nodes[n].details.condition_results) = 4
        /\ nodes[n].details.condition_results[4].type = "else"
        /\ nodes[n].result = PyInt(17)
        /\ "calculation_date" \notin accessed_paths
        /\ "d" \in accessed_paths

\* the entries of the history resolved answered with a value while the
\* requirements were evaluated
resolved_in_requirements ==
    {k \in 1..Len(resolved) :
        resolved[k].owner.phase = "requirement" /\ resolved[k].value # PyNone}

\* C19 as stated: the input map evaluate returns has an entry for every
\* reference path resolved to a value while the requirements were evaluated,
\* whichever step supplied it: definition, calculation_date, override, source
\* or ServiceProvider.
C19_InputHasEveryResolvedPath ==
    pc = "done" =>
        \A k \in resolved_in_requirements :
            /\ resolved[k].path \in DOMAIN result.input
            /\ result.input[resolved[k].path] = resolved[k].value

\* C19 amended: the input map has an entry for every reference path that an
\* override, a source or the ServiceProvider supplied while the requirements
\* were evaluated (also when the ServiceProvider's answer was null); a path
\* answered from the definitions or by calculation_date is not cached and has
\* no entry.
C19_InputHasEveryCachedPath ==
    pc = "done" =>
        \A k \in 1..Len(resolved) :
            resolved[k].owner.phase = "requirement" =>
                /\ resolved[k].via \in {"override", "source", "service", "cache"} =>
                      /\ resolved[k].path \in DOMAIN result.input
                      /\ result.input[resolved[k].path] = resolved[k].value
                /\ resolved[k].via \in {"definition", "calculation_date", "none"} =>
                      resolved[k].path \notin DOMAIN result.input

\* C19 witness: evaluate has returned; the requirements resolved $a from the
\* ServiceProvider and $d from the definitions, and the input map holds a
\* alone
C19_Witness ==
    /\ pc = "done"
    /\ \E k \in resolved_in_requirements : resolved[k].path = "a" /\ resolved[k].via = "service"
    /\ \E k \in resolved_in_requirements : resolved[k].path = "d" /\ resolved[k].via = "definition"
    /\ DOMAIN result.input = {"a"}

\* the requirement req was evaluated into the node n, which has been popped:
\* an all / or has one requirement node per child, in order, each child was
\* evaluated in the same way, every reference of the children was resolved,
\* and the result is all / any of the truth values of the children's results
RECURSIVE group_evaluated(_, _)
group_evaluated(req, n) ==
    LET children == requirement_children(req)
        kids == nodes[n].children
    IN  is_group(req) =>
            /\ Len(kids) = Len(children)
            /\ \A j \in 1..Len(children) :
                  /\ nodes[kids[j]].type = "requirement"
                  /\ nodes[kids[j]].name = requirement_name(children[j])
                  /\ popped(kids[j])
                  /\ group_evaluated(children[j], kids[j])
            /\ refs_of(req) \subseteq accessed_paths
            /\ nodes[n].result =
                  IF "all" \in DOMAIN req.f
                  THEN PyBool(\A j \in 1..Len(kids) : Truthy(nodes[kids[j]].result))
                  ELSE PyBool(\E j \in 1..Len(kids) : Truthy(nodes[kids[j]].result))

\* C20: when an all / or requirement has been evaluated, every one of its
\* children has its own requirement node and has been evaluated (its
\* references resolved), also after a child that already decided the outcome;
\* the result is the conjunction (all) or disjunction (or) of the children's
\* results: true for an empty all, false for an empty or.
C20_GroupEvaluatesEveryChild ==
    \A k \in 1..Len(RequirementNodes) :
        popped(RequirementNodes[k]) =>
            group_evaluated(engine.requirements[k], RequirementNodes[k])

\* C20 witness: an all of three children has been evaluated to false; its
\* first child was falsy, and still the second child resolved $d and the
\* third child, an empty all, was evaluated to true
C20_Witness ==
    \E k \in 1..Len(RequirementNodes) :
        LET n == RequirementNodes[k]
        IN  /\ popped(n)
            /\ nodes[n].name = "Check ALL conditions"
            /\ nodes[n].result = PyBool(FALSE)
            /\ Len(nodes[n].children) = 3
            /\ ~Truthy(nodes[nodes[n].children[1]].result)
            /\ Truthy(nodes[nodes[n].children[2]].result)
            /\ nodes[nodes[n].children[3]].name = "Check ALL conditions"
            /\ nodes[nodes[n].children[3]].children = <<>>
            /\ nodes[nodes[n].children[3]].result = PyBool(TRUE)
            /\ "d" \in accessed_paths

(***************************************************************************)
(* Claims about the order of evaluation and about outputs (checked under   *)
(* SpecSequence)                                                           *)
(***************************************************************************)
\* the references of a requirement, action or value in the order in which a
\* left-to-right evaluation meets them: the children of an all / or in
\* index order; the test, then and else of each condition of an IF in index
\* order; else the subject, then the value, then the elements of values in
\* index order (the values of IN is one list, whose elements are data)
RECURSIVE ref_order(_), ref_order_from(_, _), ref_order_if(_, _)
ref_order(term) ==
    IF term.k = "ref" THEN <<term.p>>
    ELSE IF term.k = "lit" THEN <<>>
    ELSE IF is_group(term) THEN ref_order_from(requirement_children(term), 1)
    ELSE IF op_kind(term) = "IF" THEN ref_order_if(if_conditions(term), 1)
    ELSE (IF "subject" \in DOMAIN term.f THEN ref_order(term.f.subject) ELSE <<>>)
         \o (IF "value" \in DOMAIN term.f THEN ref_order(term.f.value) ELSE <<>>)
         \o (IF "values" \in DOMAIN term.f /\ op_kind(term) # "IN"
             THEN ref_order_from(term.f.values, 1) ELSE <<>>)
ref_order_from(terms, i) ==
    IF i > Len(terms) THEN <<>> ELSE ref_order(terms[i]) \o ref_order_from(terms, i + 1)
ref_order_if(conds, i) ==
    IF i > Len(conds) THEN <<>>
    ELSE (IF "test" \in DOMAIN conds[i] THEN ref_order(conds[i].test) ELSE <<>>)
         \o (IF "then" \in DOMAIN conds[i] THEN ref_order(conds[i]["then"]) ELSE <<>>)
         \o (IF "else" \in DOMAIN conds[i] THEN ref_order(conds[i]["else"]) ELSE <<>>)
         \o ref_order_if(conds, i + 1)

\* xs is ys with some elements left out
RECURSIVE IsSubseq(_, _)
IsSubseq(xs, ys) ==
    IF xs = <<>> THEN TRUE
    ELSE IF ys = <<>> THEN FALSE
    ELSE IF Head(xs) = Head(ys) THEN IsSubseq(Tail(xs), Tail(ys))
    ELSE IsSubseq(xs, Tail(ys))

IsPrefix(xs, ys) == Len(xs) <= Len(ys) /\ xs = SubSeq(ys, 1, Len(xs))

\* the paths resolved so far on behalf of owner, in the order of resolution
RECURSIVE paths_of(_, _)
paths_of(owner, k) ==
    IF k > Len(resolved) THEN <<>>
    ELSE (IF resolved[k].owner = owner THEN <<resolved[k].path>> ELSE <<>>)
         \o paths_of(owner, k + 1)

\* the paths the ServiceProvider has answered so far, in the order of resolution
RECURSIVE answered(_)
answered(k) ==
    IF k > Len(resolved) THEN <<>>
    ELSE (IF resolved[k].via = "service" THEN <<resolved[k].path>> ELSE <<>>)
         \o answered(k + 1)

\* requirements come before actions, each kind in the order of the law
owner_rank(owner) ==
    IF owner.phase = "requirement" THEN owner.i ELSE Len(engine.requirements) + owner.i

has_if(term) == term.k = "dict" /\ ~is_group(term) /\ op_kind(term) = "IF"

\* the resolutions of one requirement or action follow its left-to-right
\* order: a prefix of it while the item is evaluated or after it raised (an
\* IF leaves out the branches it does not take)
in_order(owner, item) ==
    IF has_if(item) THEN IsSubseq(paths_of(owner, 1), ref_order(item))
    ELSE IsPrefix(paths_of(owner, 1), ref_order(item))

\* the steps of a running evaluate call that are enabled
enabled_steps ==
    {k \in 1..21 :
        CASE k = 1 -> ENABLED RequirementsEmpty
          [] k = 2 -> ENABLED RequirementBegin
          [] k = 3 -> ENABLED RequirementNextChild
          [] k = 4 -> ENABLED RequirementEnd
          [] k = 5 -> ENABLED EvaluateRequirementsDone
          [] k = 6 -> ENABLED ActionSkip
          [] k = 7 -> ENABLED ActionBegin
          [] k = 8 -> ENABLED ActionEnd
          [] k = 9 -> ENABLED EvaluateReturn
          [] k = 10 -> ENABLED OperationBegin
          [] k = 11 -> ENABLED OperationResume
          [] k = 12 -> ENABLED IfBegin
          [] k = 13 -> ENABLED IfTestReturn
          [] k = 14 -> ENABLED IfBranchReturn
          [] k = 15 -> ENABLED ValueNumber
          [] k = 16 -> ENABLED ValueOperation
          [] k = 17 -> ENABLED ResolvePlain
          [] k = 18 -> ENABLED ResolveReference
          [] k = 19 -> ENABLED ResolveService
          [] k = 20 -> ENABLED GetValueReturn
          [] OTHER -> ENABLED Propagate}

\* C21: references are resolved in the left-to-right order of the operation
\* that holds them (subject before value / values, list elements in index
\* order and all of them), requirements before actions and each in the
\* order of the law; a requirement that has been evaluated and a computed
\* action without IF have resolved every reference they hold.  get_value is
\* called in that same order, once per path the ServiceProvider answers, at
\* most one call is awaiting its answer, and a running call has exactly one
\* next step.
C21_EvaluationOrder ==
    /\ \A i \in 1..Len(engine.requirements) :
          /\ in_order([phase |-> "requirement", i |-> i], engine.requirements[i])
          /\ (i <= Len(RequirementNodes) /\ popped(RequirementNodes[i])) =>
                paths_of([phase |-> "requirement", i |-> i], 1) = ref_order(engine.requirements[i])
    /\ \A i \in 1..Len(engine.actions) :
          /\ in_order([phase |-> "action", i |-> i], engine.actions[i])
          /\ (/\ Returning /\ Truthy(kont[1].requirements_met)
              /\ ~has_if(engine.actions[i])
              /\ ~output_overridden(i)
              /\ ~skips_action(kont[1].requested_output, engine.actions[i].f.output)) =>
                paths_of([phase |-> "action", i |-> i], 1) = ref_order(engine.actions[i])
    /\ \A j, k \in 1..Len(resolved) :
          j < k => owner_rank(resolved[j].owner) <= owner_rank(resolved[k].owner)
    /\ LET waiting == {k \in 1..Len(kont) : kont[k].f = "get_value"}
       IN  /\ Cardinality(waiting) <= 1
           /\ waiting # {} => waiting = {Len(kont)}
           /\ Len(calls) = Len(answered(1)) + Cardinality(waiting)
           /\ \A j \in 1..Len(answered(1)) : calls[j].path = answered(1)[j]
           /\ \A j, k \in 1..Len(calls) : j # k => calls[j].path # calls[k].path
    /\ pc = "running" => Cardinality(enabled_steps) = 1

\* C21 witness: evaluate is at its return on the ordered law; get_value was
\* called for b, a and y in that order while the requirement was evaluated,
\* and the first action then resolved y, a and d in that order
C21_Witness ==
    /\ Returning
    /\ engine.spec = OrderedLaw
    /\ Len(calls) = 3
    /\ calls[1].path = "b" /\ calls[2].path = "a" /\ calls[3].path = "y"
    /\ paths_of([phase |-> "requirement", i |-> 1], 1) = <<"b", "a", "y", "b">>
    /\ paths_of([phase |-> "action", i |-> 1], 1) = <<"y", "a", "d">>

\* entry k of resolved is the answer of a step that assigns to values_cache
writes_cache(k) == resolved[k].via \in {"override", "source", "service"}

\* the entries before k in which a step has cached the path of entry k
cached_before(k) ==
    {j \in 1..(k - 1) : resolved[j].path = resolved[k].path /\ writes_cache(j)}

\* entry k of resolved is answered from the definitions of the law, from what
\* an earlier resolution has cached, or from the caller's inputs, by the
\* first step that has an answer
answered_from_inputs(k) ==
    LET e == resolved[k]
        fresh == [RuleContext EXCEPT !.values_cache = EmptyDict]
    IN  IF e.path = "calculation_date"
        THEN e.via = "calculation_date" /\ e.value = context.calculation_date
        ELSE IF e.path \in DOMAIN engine.definitions
        THEN e.via = "definition" /\ e.value = engine.definitions[e.path]
        ELSE IF cached_before(k) # {}
        THEN e.via = "cache" /\ \E j \in cached_before(k) : e.value = resolved[j].value
        ELSE /\ e.via = resolve_via(fresh, e.path)
             /\ e.via # "service" => e.value = resolve_from(fresh, e.path, e.via)

\* the nodes of the executed actions with output name, in the order of execution
action_nodes_of(name) ==
    {n \in 1..Len(nodes) : nodes[n].type = "action" /\ nodes[n].name = action_node_name(name)}

latest(S) == CHOOSE n \in S : \A o \in S : o <= n

\* the outputs of the actions that have been evaluated before action i
earlier_outputs(i) ==
    {engine.actions[j].f.output : j \in 1..(i - 1)} \cap {name \in ActionOutputs : action_nodes_of(name) # {}}

\* C22: an action's result goes to the output map and to its trace node
\* only.  values_cache holds nothing but what a resolution has cached, the
\* definitions stay those of the law, and every reference, a reference to
\* the output name of an earlier action included, is answered from the
\* definitions, the cache and the caller's inputs; such a reference that is
\* no definition, no property and no input resolves to None.  When evaluate
\* returns, each output holds the result of the last executed action of
\* that name.
C22_OutputsNotFedBack ==
    /\ engine.definitions = engine.spec.properties.definitions
    /\ \A p \in DOMAIN values_cache :
          \E k \in 1..Len(resolved) :
              resolved[k].path = p /\ writes_cache(k) /\ resolved[k].value = values_cache[p]
    /\ \A k \in 1..Len(resolved) : answered_from_inputs(k)
    /\ \A k \in 1..Len(resolved) :
          (/\ resolved[k].owner.phase = "action"
           /\ resolved[k].path \in earlier_outputs(resolved[k].owner.i)
           /\ resolved[k].path \notin DOMAIN engine.definitions
           /\ resolved[k].path \notin DOMAIN engine.property_specs) =>
              resolved[k].via = "none" /\ resolved[k].value = PyNone
    /\ pc = "done" =>
          \A name \in DOMAIN result.output :
              /\ action_nodes_of(name) # {}
              /\ result.output[name].value = nodes[latest(action_nodes_of(name))].result

\* C22 witness: evaluate has returned on the feedback law with all three
\* actions executed; output y has a value, both later actions resolved $y to
\* None, and output x is the result of the third action, not of the second
C22_Witness ==
    /\ pc = "done"
    /\ engine.spec = FeedbackLaw
    /\ "y" \in DOMAIN result.output /\ result.output.y.value # PyNone
    /\ Len(resolved) >= 3
    /\ resolved[2] = [path |-> "y", value |-> PyNone, via |-> "none",
                      owner |-> [phase |-> "action", i |-> 2]]
    /\ resolved[3] = [path |-> "y", value |-> PyNone, via |-> "none",
                      owner |-> [phase |-> "action", i |-> 3]]
    /\ Cardinality(action_nodes_of("x")) = 2
    /\ \E n \in action_nodes_of("x") : nodes[n].result # result.output.x.value
    /\ result.output.x.value = PyInt(17)
    /\ values_cache = EmptyDict

(***************************************************************************)
(* Claims about the arithmetic tables (checked under SpecArith)            *)
(***************************************************************************)
\* r is the fraction pn/pd (pd > 0) truncated toward zero to an int
IsTruncationOf(r, pn, pd) ==
    /\ r.t = "int"
    /\ Abs(r.n) * pd <= Abs(pn)
    /\ Abs(pn) < (Abs(r.n) + 1) * pd
    /\ (r.n > 0 => pn > 0)
    /\ (r.n < 0 => pn < 0)

\* r has the value of the exact product x * y
IsFullProduct(r, x, y) == r.n * (x.d * y.d) = (x.n * y.n) * r.d

\* the fold steps a finished or running MULTIPLY has taken: k is the index of
\* the factor, arith_trail[k - 1] the partial product before it
MultiplySteps ==
    IF arith_op = "MULTIPLY" /\ arith_pc \in {"fold", "done"}
    THEN 2..Len(arith_trail) ELSE {}

\* C9 as stated: the partial product of MULTIPLY is truncated toward zero to
\* an integer exactly when the factor y is a non-integer with |y| < 1, and is
\* the full-precision product for every other factor.
C9_TruncatesOnlyFractionBelowOneInMagnitude ==
    \A k \in MultiplySteps :
        LET x == arith_trail[k - 1]
            y == arith_vals[k]
            r == arith_trail[k]
        IN  IF y.d # 1 /\ Abs(y.n) < y.d
            THEN IsTruncationOf(r, x.n * y.n, x.d * y.d)
            ELSE IsFullProduct(r, x, y)

\* C9 amended: the partial product of MULTIPLY is truncated toward zero to an
\* int exactly when the factor y is a float (whole-valued or not) with y < 1,
\* which includes negative floats such as -2.5 and -1.0; for every other
\* factor (an int, or a float >= 1 such as 1.5) it is the full product x * y.
C9_TruncatesFloatFactorBelowOne ==
    \A k \in MultiplySteps :
        LET x == arith_trail[k - 1]
            y == arith_vals[k]
            r == arith_trail[k]
        IN  IF y.t = "float" /\ y.n < y.d
            THEN IsTruncationOf(r, x.n * y.n, x.d * y.d)
            ELSE /\ IsFullProduct(r, x, y)
                 /\ r.t = (IF x.t = "float" \/ y.t = "float" THEN "float" ELSE "int")

\* C9 witness: MULTIPLY([3, -2.5]) has returned -7, the product -7.5 truncated
C9_Witness ==
    /\ arith_pc = "done"
    /\ arith_op = "MULTIPLY"
    /\ arith_vals = <<PyInt(3), PyFloat(-5, 2)>>
    /\ arith_result = PyInt(-7)

AllInts(vals) == \A i \in 1..Len(vals) : vals[i].t = "int"

\* C10: DIVIDE over a non-empty list of integers is a left fold from the
\* first element whose every partial quotient is truncated toward zero to an
\* integer (DIVIDE([10,3]) = 3, DIVIDE([100,3,3]) = 11, DIVIDE([-7,2]) = -3);
\* with a zero among the divisors the result is 0, and nothing is raised.
C10_DivideTruncatesEachQuotient ==
    (arith_op = "DIVIDE" /\ arith_vals # <<>> /\ AllInts(arith_vals)) =>
        /\ arith_pc \in {"fold", "done"} /\ arith_trail # <<>> =>
              /\ arith_trail[1] = arith_vals[1]
              /\ \A k \in 2..Len(arith_trail) :
                    IsTruncationOf(arith_trail[k],
                                   arith_trail[k - 1].n * (IF arith_vals[k].n < 0 THEN -1 ELSE 1),
                                   Abs(arith_vals[k].n))
        /\ arith_pc = "done" =>
              /\ arith_result.t = "int"
              /\ (\E i \in 2..Len(arith_vals) : arith_vals[i].n = 0) => arith_result = PyInt(0)
              /\ (\A i \in 2..Len(arith_vals) : arith_vals[i].n # 0) =>
                    /\ Len(arith_trail) = Len(arith_vals)
                    /\ arith_result = arith_trail[Len(arith_trail)]
              /\ arith_vals = <<PyInt(10), PyInt(3)>> => arith_result = PyInt(3)
              /\ arith_vals = <<PyInt(100), PyInt(3), PyInt(3)>> => arith_result = PyInt(11)
              /\ arith_vals = <<PyInt(-7), PyInt(2)>> => arith_result = PyInt(-3)
              /\ arith_vals = <<PyInt(100), PyInt(0), PyInt(3)>> => arith_result = PyInt(0)

\* C10 witness: DIVIDE([-7, 2]) has returned -3 (not the floor, -4)
C10_Witness ==
    /\ arith_pc = "done"
    /\ arith_op = "DIVIDE"
    /\ arith_vals = <<PyInt(-7), PyInt(2)>>
    /\ arith_result = PyInt(-3)


(***************************************************************************)
(* Claims about TypeSpec.enforce (checked under SpecEnforce)               *)
(***************************************************************************)
\* C12: for every TypeSpec with min <= max and precision >= 0 and every value
\* (null, non-numeric, numeric string, integer, fractional number),
\* enforce(enforce(v)) is enforce(v), type included.
C12_EnforceIdempotent ==
    enforce_pc = "twice" => enforce_second = enforce_first

\* C12 witness: a TypeSpec with a bound, a precision and eurocent has changed
\* a number, and has been applied again to what it returned
C12_Witness ==
    /\ enforce_pc = "twice"
    /\ enforce_spec.unit = PyStr("eurocent")
    /\ enforce_spec.precision.t # "none"
    /\ enforce_spec.max.t # "none"
    /\ IsNumeric(enforce_value)
    /\ enforce_first # enforce_value
    /\ enforce_second = enforce_first

\* the value is a number, or a string that float() parses
is_number(v) == IsNumeric(v) \/ (v.t = "str" /\ ~IsExc(float_of_str(v.s)))

\* enforce leaves the bound b of its own TypeSpec as it is
bound_kept(ts, b) == IsNumeric(enforce(ts, b)) /\ NumEq(enforce(ts, b), b)

\* C18 as stated: for every TypeSpec with min <= max, also with a precision
\* or unit eurocent, the result r of enforce on a number or numeric string
\* has r >= min when min is set and r <= max when max is set; null and
\* non-numeric values are returned unchanged.
C18_ClampsIntoRange ==
    enforce_pc # "call" =>
        IF is_number(enforce_value)
        THEN /\ enforce_spec.min.t # "none" => ~NumLt(enforce_first, enforce_spec.min)
             /\ enforce_spec.max.t # "none" => ~NumLt(enforce_spec.max, enforce_first)
        ELSE enforce_first = enforce_value

\* C18 amended: r >= min when min is set and is itself left unchanged by the
\* rounding and the eurocent truncation of the TypeSpec (always so when the
\* TypeSpec has neither), and r <= max likewise; null and non-numeric values
\* are returned unchanged.
C18_ClampsIntoRangeOfKeptBounds ==
    enforce_pc # "call" =>
        IF is_number(enforce_value)
        THEN /\ (enforce_spec.min.t # "none" /\ bound_kept(enforce_spec, enforce_spec.min)) =>
                    ~NumLt(enforce_first, enforce_spec.min)
             /\ (enforce_spec.max.t # "none" /\ bound_kept(enforce_spec, enforce_spec.max)) =>
                    ~NumLt(enforce_spec.max, enforce_first)
             /\ (enforce_spec.precision.t = "none" /\ enforce_spec.unit # PyStr("eurocent")) =>
                    /\ enforce_spec.min.t # "none" => bound_kept(enforce_spec, enforce_spec.min)
                    /\ enforce_spec.max.t # "none" => bound_kept(enforce_spec, enforce_spec.max)
        ELSE enforce_first = enforce_value

\* C18 witness: a TypeSpec with min 0, a precision and eurocent has raised a
\* number below 0 to 0
C18_Witness ==
    /\ enforce_pc = "once"
    /\ enforce_spec.min = PyInt(0)
    /\ enforce_spec.precision.t # "none"
    /\ enforce_spec.unit = PyStr("eurocent")
    /\ IsNumeric(enforce_value) /\ NumLt(enforce_value, enforce_spec.min)
    /\ enforce_first = PyInt(0)
====
